---- MODULE Spec2Model ----
(***************************************************************************)
(* A model of the job ranking code of backend/api/backend/api/jobs.py:     *)
(* tokenize, jaccard, time_decay, compute_relevance, the candidate         *)
(* selectors and the list_jobs / match_jobs / create_job handlers, with    *)
(* update_preferences of backend/api/user.py supplying the preferences,    *)
(* and of the Mongo side: the identifier handlers of                       *)
(* backend/app/routers/jobs.py and applications.py and the connection     *)
(* holder of backend/db/connection.py.  The handlers are checked one       *)
(* request at a time (Spec) and with two requests interleaved (SpecConc,   *)
(* SpecRace).                                                              *)
(*                                                                         *)
(* Representation.                                                         *)
(*  - A Python str is a sequence of characters, a character being a       *)
(*    one-character string or, for a code point outside ASCII, its name    *)
(*    ("U+0130").                                                          *)
(*  - An Optional value is None (the empty tuple) or Some(v) (the tuple    *)
(*    <<v>>), so that NULL and the empty string stay distinct.             *)
(*  - A float is an exact rational [n, d] in lowest terms; a score, which  *)
(*    the code rounds to two decimals, is an integer number of hundredths  *)
(*    (35.00 is 3500).  Binary rounding error of the floats is not         *)
(*    modelled: where the exact value lies midway between two hundredths   *)
(*    the code's binary64 result can be the other neighbour, one hundredth *)
(*    away.  No property below turns on the direction of such a tie.       *)
(*  - Time is counted in days.  Timestamps lie on a grid whose step is one *)
(*    half-life, where 0.5 ** (dt / half_life) is exactly 1 / 2^k.         *)
(***************************************************************************)
EXTENDS Integers, Sequences, FiniteSets, TLC

VARIABLES
    now,      \* the wall clock (datetime.utcnow()), in days
    jobs,     \* the Job table: a sequence of rows, the id of a row is its index
    prefs,    \* the UserPreferences row of the current user: None or Some(row)
    resp,     \* the last response produced by a handler, with the trace of its pass
    call,     \* the last direct call of a utility function: its arguments and result
    inflight, \* the requests being served concurrently: for each worker, where it stands
    client,   \* MongoDB.client of db/connection.py: None or Some(connection string)
    db,       \* MongoDB.db: None or Some(database handle)
    link,     \* history: how the most recent connect or close of MongoDB ended
    jobs_collection,         \* the Mongo collection "jobs": document _id -> document
    applications_collection, \* the Mongo collection "applications": _id -> document
    reply     \* the last answer of a Mongo router handler or of a MongoDB method

sql_vars == <<now, jobs, prefs, resp, call>>

mongo_vars == <<client, db, link, jobs_collection, applications_collection, reply>>

vars == <<now, jobs, prefs, resp, call, inflight, client, db, link,
          jobs_collection, applications_collection, reply>>

----------------------------------------------------------------------------
(* Optional values *)

None == <<>>

Some(v) == <<v>>

IsNone(x) == x = None

Val(x) == x[1]

\* Python truthiness of an Optional[str] or Optional[List]: None and the empty value are falsy.
TruthySeq(x) == ~IsNone(x) /\ Val(x) # <<>>

\* Python truthiness of an Optional[int]: None and 0 are falsy.
TruthyInt(x) == ~IsNone(x) /\ Val(x) # 0

\* Python truthiness of an Optional[bool].
TruthyBool(x) == ~IsNone(x) /\ Val(x) = TRUE

----------------------------------------------------------------------------
(* The state at import time of what lies outside the SQL handlers *)

\* No request is being served.
NoInflight == <<>>

NoReply == [op |-> "none"]

\* connection.py: the class attributes client = None and db = None;
\* models.py: the collections of a database nothing was written to.
MongoInit ==
    /\ client = None
    /\ db = None
    /\ link = "never"
    /\ jobs_collection = <<>>
    /\ applications_collection = <<>>
    /\ reply = NoReply

----------------------------------------------------------------------------
(* Characters and strings *)

UpperChars == <<"A", "B", "C", "D", "E", "F", "G", "H", "I", "J", "K", "L", "M",
                "N", "O", "P", "Q", "R", "S", "T", "U", "V", "W", "X", "Y", "Z">>

LowerChars == <<"a", "b", "c", "d", "e", "f", "g", "h", "i", "j", "k", "l", "m",
                "n", "o", "p", "q", "r", "s", "t", "u", "v", "w", "x", "y", "z">>

DigitChars == {"0", "1", "2", "3", "4", "5", "6", "7", "8", "9"}

UpperSet == {UpperChars[i] : i \in DOMAIN UpperChars}

\* LATIN CAPITAL LETTER I WITH DOT ABOVE, an uppercase letter, and COMBINING DOT
\* ABOVE, a nonspacing mark
CapitalIWithDot == "U+0130"

CombiningDot == "U+0307"

AlnumSet ==
    UpperSet \cup {LowerChars[i] : i \in DOMAIN LowerChars} \cup DigitChars
        \cup {CapitalIWithDot}

isupper(c) == c \in UpperSet

\* str.isalnum() of one character
isalnum(c) == c \in AlnumSet

\* str.isspace() of one character
isspace(c) == c \in {" ", "\t", "\n"}

\* str.lower() of one character: a string, of two characters for U+0130
char_lower(c) ==
    IF isupper(c) THEN <<LowerChars[CHOOSE i \in DOMAIN UpperChars : UpperChars[i] = c]>>
    ELSE IF c = CapitalIWithDot THEN <<"i", CombiningDot>>
    ELSE <<c>>

RECURSIVE concat(_)
\* "".join(l)
concat(l) == IF l = <<>> THEN <<>> ELSE l[1] \o concat(Tail(l))

\* str.lower() and SQL lower()
str_lower(s) ==
    IF \A i \in DOMAIN s : s[i] # CapitalIWithDot
    THEN [i \in 1..Len(s) |-> char_lower(s[i])[1]]
    ELSE concat([i \in 1..Len(s) |-> char_lower(s[i])])

\* Python's `sub in text`
contains(text, sub) ==
    \E i \in 0..(Len(text) - Len(sub)) :
        \A k \in 1..Len(sub) : text[i + k] = sub[k]

\* str.split(): the maximal runs of non-whitespace characters, in order
RECURSIVE split_from(_, _, _)
split_from(s, i, cur) ==
    IF i > Len(s) THEN (IF cur = <<>> THEN <<>> ELSE <<cur>>)
    ELSE IF isspace(s[i])
         THEN (IF cur = <<>> THEN <<>> ELSE <<cur>>) \o split_from(s, i + 1, <<>>)
         ELSE split_from(s, i + 1, Append(cur, s[i]))

split(s) == split_from(s, 1, <<>>)

\* " ".join(list)
RECURSIVE join_space(_)
join_space(l) ==
    IF l = <<>> THEN <<>>
    ELSE IF Len(l) = 1 THEN l[1]
    ELSE l[1] \o <<" ">> \o join_space(Tail(l))

STOPWORDS ==
    { <<"a">>, <<"a", "n">>, <<"t", "h", "e">>, <<"a", "n", "d">>, <<"o", "r">>,
      <<"t", "o">>, <<"o", "f">>, <<"i", "n">>, <<"o", "n">>, <<"f", "o", "r">>,
      <<"w", "i", "t", "h">>, <<"b", "y">>, <<"a", "t">>, <<"a", "s">>, <<"i", "s">>,
      <<"a", "r", "e">>, <<"b", "e">>, <<"t", "h", "i", "s">>, <<"t", "h", "a", "t">>,
      <<"i", "t">>, <<"f", "r", "o", "m">> }

\* the inner comprehension of tokenize: c.lower() if c.isalnum() or c.isspace() else " "
normalize(s) ==
    concat([i \in 1..Len(s) |->
               IF isalnum(s[i]) \/ isspace(s[i]) THEN char_lower(s[i]) ELSE <<" ">>])

IsToken(t) == t # <<>> /\ t \notin STOPWORDS

\* tokenize(text), text an Optional[str]
tokenize(text) ==
    IF ~TruthySeq(text) THEN <<>>
    ELSE SelectSeq(split(normalize(Val(text))), IsToken)

----------------------------------------------------------------------------
(* Exact rationals, standing for the floats of the code *)

RECURSIVE GCD(_, _)
GCD(a, b) == IF b = 0 THEN a ELSE GCD(b, a % b)

Abs(x) == IF x < 0 THEN -x ELSE x

Rat(n, d) ==
    LET g == GCD(Abs(n), d) IN [n |-> n \div g, d |-> d \div g]

RAdd(x, y) == Rat(x.n * y.d + y.n * x.d, x.d * y.d)

RSub(x, y) == Rat(x.n * y.d - y.n * x.d, x.d * y.d)

RMul(x, y) ==
    LET g1 == GCD(Abs(x.n), y.d)
        g2 == GCD(Abs(y.n), x.d)
    IN  Rat((x.n \div g1) * (y.n \div g2), (x.d \div g2) * (y.d \div g1))

RLe(x, y) == x.n * y.d <= y.n * x.d

RLt(x, y) == x.n * y.d < y.n * x.d

RMin(x, y) == IF RLe(x, y) THEN x ELSE y

RMax(x, y) == IF RLe(x, y) THEN y ELSE x

RZero == Rat(0, 1)

ROne == Rat(1, 1)

\* round(100 * x, 2) in hundredths: the integer nearest to 10000 * x, a tie going
\* to the even one (Python's round), for 0 <= x
round2_of_100x(x) ==
    LET q1 == (100 * x.n) \div x.d
        r1 == (100 * x.n) % x.d
        q2 == (100 * r1) \div x.d
        r2 == (100 * r1) % x.d
        q  == 100 * q1 + q2
    IN  IF 2 * r2 > x.d THEN q + 1
        ELSE IF 2 * r2 < x.d THEN q
        ELSE IF q % 2 = 0 THEN q ELSE q + 1

----------------------------------------------------------------------------
(* Similarity and recency *)

Range(s) == {s[i] : i \in DOMAIN s}

\* list(set(...)): some list of the elements of a set
RECURSIVE list_of_set(_)
list_of_set(S) ==
    IF S = {} THEN <<>>
    ELSE LET x == CHOOSE y \in S : TRUE IN <<x>> \o list_of_set(S \ {x})

\* jaccard with two empty lists taken as identical
jaccard_empty_is_one(a, b) ==
    IF a = <<>> /\ b = <<>> THEN ROne
    ELSE LET sa == Range(a)
             sb == Range(b)
         IN  Rat(Cardinality(sa \cap sb), Cardinality(sa \cup sb))

\* Whether jaccard raises: the division is reached with a zero divisor
\* (ZeroDivisionError)
jaccard_raises(a, b) ==
    /\ ~(a = <<>> \/ b = <<>>)
    /\ LET union == Cardinality(Range(a) \cup Range(b)) IN union # 0 /\ union = 0

\* jaccard over the lists as they are, duplicates counted in the union
jaccard_of_lists(a, b) ==
    IF a = <<>> \/ b = <<>> THEN RZero
    ELSE LET inter == Cardinality(Range(a) \cap Range(b))
         IN  Rat(inter, Len(a) + Len(b) - inter)

jaccard(a, b) ==
    IF a = <<>> \/ b = <<>> THEN RZero
    ELSE LET sa == Range(a)
             sb == Range(b)
             inter == Cardinality(sa \cap sb)
             union == Cardinality(sa \cup sb)
         IN  IF union # 0 THEN Rat(inter, union) ELSE RZero

DEFAULT_DECAY_DAYS == 30

RECURSIVE half_pow(_)
\* 0.5 ** k for a natural k
half_pow(k) == IF k = 0 THEN ROne ELSE RMul(Rat(1, 2), half_pow(k - 1))

\* time_decay without the floor of 0.1
time_decay_no_floor(posted_at, half_life_days, utcnow) ==
    IF IsNone(posted_at) THEN ROne
    ELSE LET dt == utcnow - Val(posted_at) IN
         IF dt <= 0 THEN ROne
         ELSE half_pow(dt \div half_life_days)

\* time_decay with the elapsed time taken as posted_at - utcnow
time_decay_reversed(posted_at, half_life_days, utcnow) ==
    IF IsNone(posted_at) THEN ROne
    ELSE LET dt == Val(posted_at) - utcnow IN
         IF dt <= 0 THEN ROne
         ELSE RMax(Rat(1, 10), half_pow(dt \div half_life_days))

\* time_decay(posted_at, half_life_days), utcnow the value datetime.utcnow() returns
\* in this call
time_decay(posted_at, half_life_days, utcnow) ==
    IF IsNone(posted_at) THEN ROne
    ELSE LET dt == utcnow - Val(posted_at) IN
         IF dt <= 0 THEN ROne
         ELSE RMax(Rat(1, 10), half_pow(dt \div half_life_days))

----------------------------------------------------------------------------
(* compute_relevance *)

\* or_list with the `or []` left out: None stays None
or_list_unguarded(x) == x

\* `x or []` on an Optional[List[str]]; the result is an Optional that is never None
or_list(x) == IF TruthySeq(x) THEN x ELSE Some(<<>>)

\* `x or ""` on an Optional[str]; the result is an Optional that is never None
or_str(x) == IF TruthySeq(x) THEN x ELSE Some(<<>>)

\* set([t.lower() for t in l])
lower_set(l) == {str_lower(l[i]) : i \in DOMAIN l}

title_tokens_of(job) == tokenize(or_str(Some(job.title)))

\* desc_tokens_of with the source label read as part of the description
desc_tokens_with_source(job) ==
    tokenize(or_str(job.description)) \o tokenize(or_str(job.source))

desc_tokens_of(job) == tokenize(or_str(job.description))

\* tokenize(" ".join(job.tags or [])) if hasattr(job, "tags") and job.tags else []
tags_tokens_of(job) ==
    IF TruthySeq(job.tags) THEN tokenize(Some(join_space(Val(or_list(job.tags))))) ELSE <<>>

job_tokens_of(job) == title_tokens_of(job) \o desc_tokens_of(job) \o tags_tokens_of(job)

include_kw_of(p) == lower_set(Val(or_list(p.keywords_include)))

exclude_kw_of(p) == lower_set(Val(or_list(p.keywords_exclude)))

tech_of(p) == lower_set(Val(or_list(p.tech_stack)))

titles_of(p) == lower_set(Val(or_list(p.job_titles)))

locs_of(p) == lower_set(Val(or_list(p.locations)))

title_match(job, p) == jaccard(title_tokens_of(job), list_of_set(titles_of(p)))

tech_match(job, p) == jaccard(job_tokens_of(job), list_of_set(tech_of(p)))

include_match(job, p) == jaccard(job_tokens_of(job), list_of_set(include_kw_of(p)))

\* exclude_penalty_of with the excluded keywords ignored
exclude_penalty_of_off(job_tokens, exclude_kw) == ROne

\* exclude_penalty_of without the cap of 0.9 on the overlap
exclude_penalty_of_uncapped(job_tokens, exclude_kw) ==
    IF exclude_kw = {} THEN ROne
    ELSE RSub(ROne, jaccard(job_tokens, list_of_set(exclude_kw)))

\* 1.0 if not exclude_kw else 1.0 - min(0.9, jaccard(job_tokens, list(exclude_kw)))
exclude_penalty_of(job_tokens, exclude_kw) ==
    IF exclude_kw = {} THEN ROne
    ELSE RSub(ROne, RMin(Rat(9, 10), jaccard(job_tokens, list_of_set(exclude_kw))))

exclude_penalty(job, p) == exclude_penalty_of(job_tokens_of(job), exclude_kw_of(p))

\* remote_bonus with the job's remote flag read as true when remote_only is set
remote_bonus_always(job, p) ==
    IF ~IsNone(p.remote_only) /\ Val(p.remote_only) = TRUE THEN Rat(1, 10) ELSE RZero

\* the remote part of loc_bonus
remote_bonus(job, p) ==
    IF ~IsNone(p.remote_only) /\ Val(p.remote_only) = TRUE
    THEN (IF TruthyBool(job.remote) THEN Rat(1, 10) ELSE Rat(-2, 10))
    ELSE RZero

\* the preferred-locations part of loc_bonus
place_bonus(job, p) ==
    IF locs_of(p) # {}
    THEN LET job_loc == str_lower(Val(or_str(job.location))) IN
         IF \E l \in locs_of(p) : contains(job_loc, l) THEN Rat(1, 10) ELSE RZero
    ELSE RZero

loc_bonus(job, p) == RAdd(remote_bonus(job, p), place_bonus(job, p))

\* salary_bonus with a penalty of 0.5 for a salary below the minimum
salary_bonus_heavy_penalty(job, p) ==
    IF TruthyInt(p.min_salary) /\ TruthyInt(job.salary_max)
    THEN (IF Val(job.salary_max) >= Val(p.min_salary) THEN Rat(1, 10) ELSE Rat(-5, 10))
    ELSE RZero

salary_bonus(job, p) ==
    IF TruthyInt(p.min_salary) /\ TruthyInt(job.salary_max)
    THEN (IF TruthyInt(job.salary_max) /\ Val(job.salary_max) >= Val(p.min_salary)
          THEN Rat(1, 10) ELSE Rat(-15, 100))
    ELSE RZero

\* 0.45 * title_match + 0.25 * tech_match + 0.20 * include_match
\*   + 0.10 * (1.0 + loc_bonus + salary_bonus)
weighted(tm, te, im, lb, sb) ==
    RAdd(RAdd(RAdd(RMul(Rat(45, 100), tm), RMul(Rat(25, 100), te)),
              RMul(Rat(20, 100), im)),
         RMul(Rat(10, 100), RAdd(ROne, RAdd(lb, sb))))

\* the weighted sum before decay and penalties
weighted_sum(job, p) ==
    weighted(title_match(job, p), tech_match(job, p), include_match(job, p),
             loc_bonus(job, p), salary_bonus(job, p))

\* max(lo, min(hi, x))
clamp(lo, hi, x) == RMax(lo, RMin(hi, x))

\* baseline_relevance with a base of 0.30
baseline_relevance_low_base(job, utcnow) ==
    round2_of_100x(RMin(ROne, RMul(Rat(30, 100),
                                   time_decay(job.posted_at, DEFAULT_DECAY_DAYS, utcnow))))

\* baseline_relevance with a base of 0.40 for a remote job
baseline_relevance_remote_base(job, utcnow) ==
    round2_of_100x(RMin(ROne, RMul(IF TruthyBool(job.remote) THEN Rat(40, 100) ELSE Rat(35, 100),
                                   time_decay(job.posted_at, DEFAULT_DECAY_DAYS, utcnow))))

\* the branch of compute_relevance taken when prefs is None
baseline_relevance(job, utcnow) ==
    round2_of_100x(RMin(ROne, RMul(Rat(35, 100),
                                   time_decay(job.posted_at, DEFAULT_DECAY_DAYS, utcnow))))

\* prefs_relevance without the final clamp to [0.0, 1.0]
prefs_relevance_no_final_clamp(job, p, utcnow) ==
    LET s0 == clamp(RZero, Rat(15, 10), weighted_sum(job, p))
        s1 == RMul(s0, exclude_penalty(job, p))
        s2 == RMul(s1, time_decay(job.posted_at, DEFAULT_DECAY_DAYS, utcnow))
    IN  round2_of_100x(s2)

\* prefs_relevance with the recency folded into the match components of the
\* weighted sum instead of multiplying the sum
prefs_relevance_decay_in_weights(job, p, utcnow) ==
    LET recency == time_decay(job.posted_at, DEFAULT_DECAY_DAYS, utcnow)
        s0 == clamp(RZero, Rat(15, 10),
                    weighted(RMul(recency, title_match(job, p)), RMul(recency, tech_match(job, p)),
                             RMul(recency, include_match(job, p)),
                             loc_bonus(job, p), salary_bonus(job, p)))
        s1 == RMul(s0, exclude_penalty(job, p))
    IN  round2_of_100x(clamp(RZero, ROne, s1))

\* the branch of compute_relevance taken with a preferences row p; the tokens of
\* the job are computed once, as in the code
prefs_relevance(job, p, utcnow) ==
    LET title_tokens == title_tokens_of(job)
        job_tokens == title_tokens \o desc_tokens_of(job) \o tags_tokens_of(job)
        tm == jaccard(title_tokens, list_of_set(titles_of(p)))
        te == jaccard(job_tokens, list_of_set(tech_of(p)))
        im == jaccard(job_tokens, list_of_set(include_kw_of(p)))
        ep == exclude_penalty_of(job_tokens, exclude_kw_of(p))
        recency == time_decay(job.posted_at, DEFAULT_DECAY_DAYS, utcnow)
        s0 == clamp(RZero, Rat(15, 10), weighted(tm, te, im, loc_bonus(job, p), salary_bonus(job, p)))
        s1 == RMul(s0, ep)
        s2 == RMul(s1, recency)
    IN  round2_of_100x(clamp(RZero, ROne, s2))

\* compute_relevance(job, prefs), in hundredths; utcnow is what datetime.utcnow()
\* returns inside this call's time_decay
compute_relevance(job, prefs_opt, utcnow) ==
    IF IsNone(prefs_opt) THEN baseline_relevance(job, utcnow)
    ELSE prefs_relevance(job, Val(prefs_opt), utcnow)

\* Whether compute_relevance raises: a list comprehension over None (TypeError)
\* or None.lower() (AttributeError)
compute_relevance_raises(job, prefs_opt) ==
    IF IsNone(prefs_opt) THEN FALSE
    ELSE LET p == Val(prefs_opt) IN
         \/ \E l \in {or_list(p.keywords_include), or_list(p.keywords_exclude),
                      or_list(p.tech_stack), or_list(p.job_titles), or_list(p.locations)} :
                IsNone(l)
         \/ /\ ~IsNone(or_list(p.locations))
            /\ locs_of(p) # {}
            /\ IsNone(or_str(job.location))

----------------------------------------------------------------------------
(* Texts used as inputs *)

\* "Software Engineer Intern"
TxtSoftwareEngineerIntern ==
    <<"S", "o", "f", "t", "w", "a", "r", "e", " ", "E", "n", "g", "i", "n", "e", "e",
      "r", " ", "I", "n", "t", "e", "r", "n">>

\* "remote internship opportunity"
TxtRemoteInternshipOpportunity ==
    <<"r", "e", "m", "o", "t", "e", " ", "i", "n", "t", "e", "r", "n", "s", "h", "i",
      "p", " ", "o", "p", "p", "o", "r", "t", "u", "n", "i", "t", "y">>

\* "software engineer"
TxtSoftwareEngineerLower ==
    <<"s", "o", "f", "t", "w", "a", "r", "e", " ", "e", "n", "g", "i", "n", "e", "e",
      "r">>

\* "Intern"
TxtIntern ==
    <<"I", "n", "t", "e", "r", "n">>

\* "internship"
TxtInternship ==
    <<"i", "n", "t", "e", "r", "n", "s", "h", "i", "p">>

\* "remote"
TxtRemoteLower ==
    <<"r", "e", "m", "o", "t", "e">>

\* "Python"
TxtPython ==
    <<"P", "y", "t", "h", "o", "n">>

\* "python"
TxtPythonLower ==
    <<"p", "y", "t", "h", "o", "n">>

\* "PYTHON"
TxtPythonUpper ==
    <<"P", "Y", "T", "H", "O", "N">>

\* "SQL"
TxtSql ==
    <<"S", "Q", "L">>

\* "ml_engineer"
TxtMlUnderscoreEngineer ==
    <<"m", "l", "_", "e", "n", "g", "i", "n", "e", "e", "r">>

\* "REST-API"
TxtRestApi ==
    <<"R", "E", "S", "T", "-", "A", "P", "I">>

\* "Pune, India"
TxtPuneIndia ==
    <<"P", "u", "n", "e", ",", " ", "I", "n", "d", "i", "a">>

\* "Pune"
TxtPune ==
    <<"P", "u", "n", "e">>

\* "pune"
TxtPuneLower ==
    <<"p", "u", "n", "e">>

\* "Acme"
TxtAcme ==
    <<"A", "c", "m", "e">>

\* "http://a/1"
TxtUrlA ==
    <<"h", "t", "t", "p", ":", "/", "/", "a", "/", "1">>

\* "http://b/2"
TxtUrlB ==
    <<"h", "t", "t", "p", ":", "/", "/", "b", "/", "2">>

\* "linkedin"
TxtLinkedin ==
    <<"l", "i", "n", "k", "e", "d", "i", "n">>

\* "indeed"
TxtIndeed ==
    <<"i", "n", "d", "e", "e", "d">>

\* "Data Engineer"
TxtDataEngineer ==
    <<"D", "a", "t", "a", " ", "E", "n", "g", "i", "n", "e", "e", "r">>

\* "ML Engineer"
TxtMlEngineer ==
    <<"M", "L", " ", "E", "n", "g", "i", "n", "e", "e", "r">>

\* "engineer"
TxtEngineerLower ==
    <<"e", "n", "g", "i", "n", "e", "e", "r">>

\* "acme"
TxtAcmeLower ==
    <<"a", "c", "m", "e">>

\* "manual"
TxtManual ==
    <<"m", "a", "n", "u", "a", "l">>

----------------------------------------------------------------------------
(* The inputs of the scoring specification *)

\* in the scoring specification the clock ranges over 0, 30, ..., 30 * ScoreTicks days
ScoreTicks == 5

ScoreInstants == {k * DEFAULT_DECAY_DAYS : k \in 0..ScoreTicks}

\* the fields of a job that may be NULL
OptionalJobFields ==
    {"description", "tags", "location", "salary_min", "salary_max", "posted_at", "remote"}

PrefFields ==
    {"job_titles", "locations", "remote_only", "min_salary", "tech_stack",
     "keywords_include", "keywords_exclude"}

\* rec with the fields of m set to None
null_fields(rec, m) == [f \in DOMAIN rec |-> IF f \in m THEN None ELSE rec[f]]

InternJob ==
    [title |-> TxtSoftwareEngineerIntern, company |-> TxtAcme,
     location |-> Some(TxtPuneIndia), remote |-> Some(TRUE),
     description |-> Some(TxtRemoteInternshipOpportunity),
     url |-> Some(TxtUrlA), source |-> Some(TxtLinkedin),
     salary_min |-> Some(40), salary_max |-> Some(60),
     tags |-> Some(<<TxtPython, TxtRestApi>>),
     posted_at |-> Some(DEFAULT_DECAY_DAYS)]

InternJobOnsite == [InternJob EXCEPT !.remote = Some(FALSE)]

PythonJob ==
    [title |-> TxtPython, company |-> TxtAcme,
     location |-> Some(TxtPune), remote |-> Some(TRUE),
     description |-> Some(TxtPythonLower),
     url |-> Some(TxtUrlB), source |-> Some(TxtIndeed),
     salary_min |-> Some(40), salary_max |-> Some(60),
     tags |-> Some(<<TxtPythonUpper>>),
     posted_at |-> Some(DEFAULT_DECAY_DAYS)]

FullPrefs ==
    [job_titles |-> Some(<<TxtIntern, TxtSoftwareEngineerLower>>),
     locations |-> Some(<<TxtPune>>),
     remote_only |-> Some(TRUE),
     min_salary |-> Some(50),
     tech_stack |-> Some(<<TxtPython, TxtSql>>),
     keywords_include |-> Some(<<TxtRemoteLower>>),
     keywords_exclude |-> Some(<<TxtInternship>>)]

\* the preferences of the remote-intern scenario
ScenarioPrefs ==
    [job_titles |-> Some(<<TxtSoftwareEngineerLower>>),
     locations |-> None,
     remote_only |-> Some(TRUE),
     min_salary |-> None,
     tech_stack |-> Some(<<>>),
     keywords_include |-> Some(<<>>),
     keywords_exclude |-> Some(<<>>)]

\* the preferences of the remote-intern scenario with one excluded keyword
ScenarioExcludePrefs ==
    [ScenarioPrefs EXCEPT !.keywords_exclude = Some(<<TxtInternship>>)]

\* preferences whose excluded keywords are all the tokens of PythonJob
PythonExcludePrefs ==
    [ScenarioPrefs EXCEPT !.keywords_exclude = Some(<<TxtPython>>)]

\* the scenario preferences with a minimum salary above every salary on offer
DemandingPrefs ==
    [ScenarioPrefs EXCEPT !.min_salary = Some(100)]

PythonPrefs ==
    [job_titles |-> Some(<<TxtPython>>),
     locations |-> Some(<<TxtPuneLower>>),
     remote_only |-> Some(TRUE),
     min_salary |-> Some(50),
     tech_stack |-> Some(<<TxtPythonLower>>),
     keywords_include |-> Some(<<TxtPythonUpper>>),
     keywords_exclude |-> Some(<<>>)]

ScoreJobs ==
    {null_fields(InternJob, m) : m \in SUBSET OptionalJobFields}
        \cup {InternJobOnsite,
              null_fields(InternJobOnsite, {"tags", "location", "salary_min", "salary_max"}),
              PythonJob}

ScorePrefs ==
    {None} \cup {Some(null_fields(FullPrefs, m)) : m \in SUBSET PrefFields}
           \cup {Some(ScenarioPrefs), Some(PythonPrefs),
                 Some(ScenarioExcludePrefs), Some(PythonExcludePrefs),
                 Some(DemandingPrefs)}

----------------------------------------------------------------------------
(* The scoring specification: one call of compute_relevance on drawn inputs *)

\* resp when no request is being answered.  A response holds its items, and the
\* trace of the pass that built it: reads[i] is the value of datetime.utcnow() in
\* the scoring of the i-th retrieved row, retrieved the ids of the page in
\* retrieval order, order the ids of all selected rows in retrieval order
NoResp ==
    [op |-> "none", status |-> "none", items |-> <<>>, reads |-> <<>>,
     page |-> 0, per_page |-> 0, order |-> <<>>, retrieved |-> <<>>, total |-> 0]

\* the JobOut built from a row and its score
JobOut(id, job, score) ==
    [id |-> id, job |-> job, score |-> score]

\* call when no utility function has been called directly
NoCall == [fn |-> "none", args |-> <<>>, status |-> "none", result |-> <<>>]

ScoreInit ==
    /\ now \in ScoreInstants
    /\ jobs = <<>>
    /\ prefs = None
    /\ resp = NoResp
    /\ call = NoCall
    /\ inflight = NoInflight
    /\ MongoInit

\* compute_relevance(job, prefs) called at the instant now
ScoreCall ==
    /\ resp.op = "none"
    /\ \E job \in ScoreJobs, p \in ScorePrefs :
        /\ jobs' = <<job>>
        /\ prefs' = p
        /\ resp' = IF compute_relevance_raises(job, p)
                   THEN [NoResp EXCEPT !.op = "score", !.status = "raised", !.reads = <<now>>]
                   ELSE [NoResp EXCEPT !.op = "score", !.status = "ok", !.reads = <<now>>,
                                       !.items = <<JobOut(1, job, compute_relevance(job, p, now))>>]
    /\ UNCHANGED <<now, call>>
    /\ UNCHANGED <<inflight, mongo_vars>>

ScoreNext == ScoreCall

SpecScore == ScoreInit /\ [][ScoreNext]_vars

----------------------------------------------------------------------------
(* Query helpers: the WHERE clauses, evaluated on one row.  A comparison with a *)
(* NULL column is NULL, and a row whose WHERE clause is NULL is not selected.   *)

\* text LIKE pattern: "%" in the pattern stands for any run of characters, "_"
\* for any one character, every other character for itself
RECURSIVE like_from(_, _, _, _)
like_from(text, i, pattern, j) ==
    IF j > Len(pattern) THEN i > Len(text)
    ELSE IF pattern[j] = "%"
         THEN like_from(text, i, pattern, j + 1)
              \/ (i <= Len(text) /\ like_from(text, i + 1, pattern, j))
    ELSE /\ i <= Len(text)
         /\ pattern[j] = "_" \/ pattern[j] = text[i]
         /\ like_from(text, i + 1, pattern, j + 1)

like(text, pattern) == like_from(text, 1, pattern, 1)

\* func.lower(col).like("%" + pat.lower() + "%"): pat is put in the pattern as it
\* is, so a "%" or "_" in it is a wildcard
sql_like_lower(col, pat) ==
    ~IsNone(col) /\ like(str_lower(Val(col)), <<"%">> \o str_lower(pat) \o <<"%">>)

\* col >= v
sql_ge(col, v) == ~IsNone(col) /\ Val(col) >= v

\* col == v
sql_eq(col, v) == ~IsNone(col) /\ Val(col) = v

\* the tag predicate of apply_filters: tags_text holds the tags joined by ","; for
\* a pattern without "," the LIKE matches iff some tag contains the pattern
tags_like(job, t) ==
    TruthySeq(job.tags) /\ \E i \in DOMAIN Val(job.tags) :
        contains(str_lower(Val(job.tags)[i]), str_lower(t))

\* salary_predicate with AND in the place of or_
salary_predicate_and(job, min_salary) ==
    sql_ge(job.salary_max, min_salary) /\ sql_ge(job.salary_min, min_salary)

\* or_(Job.salary_max >= min_salary, Job.salary_min >= min_salary)
salary_predicate(job, min_salary) ==
    sql_ge(job.salary_max, min_salary) \/ sql_ge(job.salary_min, min_salary)

\* recency_predicate without the Job.posted_at == None alternative
recency_predicate_known_only(job, cutoff) == sql_ge(job.posted_at, cutoff)

\* or_(Job.posted_at == None, Job.posted_at >= cutoff)
recency_predicate(job, cutoff) == IsNone(job.posted_at) \/ sql_ge(job.posted_at, cutoff)

\* apply_filters(q, title, company, locations, remote, min_salary,
\* posted_within_days, tags) on one row; utcnow is the clock read for the cutoff
apply_filters(job, f, utcnow) ==
    /\ TruthySeq(f.title) => sql_like_lower(Some(job.title), Val(f.title))
    /\ TruthySeq(f.company) => sql_like_lower(Some(job.company), Val(f.company))
    /\ TruthySeq(f.locations) =>
           \E i \in DOMAIN Val(f.locations) : sql_like_lower(job.location, Val(f.locations)[i])
    /\ ~IsNone(f.remote) => sql_eq(job.remote, Val(f.remote))
    /\ ~IsNone(f.min_salary) => salary_predicate(job, Val(f.min_salary))
    /\ (~IsNone(f.posted_within_days) /\ Val(f.posted_within_days) > 0) =>
           recency_predicate(job, utcnow - Val(f.posted_within_days))
    /\ TruthySeq(f.tags) => \A i \in DOMAIN Val(f.tags) : tags_like(job, Val(f.tags)[i])

\* the title/keyword OR-predicate of the match_jobs pre-filter
coarse_predicates(job, p) ==
    \/ /\ TruthySeq(p.job_titles)
       /\ \E i \in DOMAIN Val(p.job_titles) :
              sql_like_lower(Some(job.title), Val(p.job_titles)[i])
    \/ /\ TruthySeq(p.keywords_include)
       /\ \E i \in DOMAIN Val(p.keywords_include) :
              sql_like_lower(job.description, Val(p.keywords_include)[i])

\* the number of predicates collected by the pre-filter
coarse_predicate_count(p) ==
    (IF TruthySeq(p.job_titles) THEN Len(Val(p.job_titles)) ELSE 0)
        + (IF TruthySeq(p.keywords_include) THEN Len(Val(p.keywords_include)) ELSE 0)

\* the pre-filter of match_jobs on one row
pre_filter(job, prefs_opt) ==
    IF IsNone(prefs_opt) THEN TRUE
    ELSE LET p == Val(prefs_opt) IN
         /\ coarse_predicate_count(p) > 0 => coarse_predicates(job, p)
         /\ (~IsNone(p.remote_only) /\ Val(p.remote_only) = TRUE) => sql_eq(job.remote, TRUE)
         /\ TruthySeq(p.locations) =>
                \E i \in DOMAIN Val(p.locations) : sql_like_lower(job.location, Val(p.locations)[i])
         /\ TruthyInt(p.min_salary) =>
                sql_ge(job.salary_max, Val(p.min_salary)) \/ sql_ge(job.salary_min, Val(p.min_salary))

\* a.posted_at may come before b.posted_at under ORDER BY posted_at DESC NULLS LAST
posted_desc_nullslast(a, b) ==
    \/ IsNone(b.posted_at)
    \/ ~IsNone(a.posted_at) /\ Val(a.posted_at) >= Val(b.posted_at)

\* the orders in which the database may return the rows ids under
\* ORDER BY posted_at DESC NULLS LAST: rows with equal posted_at come in any order
retrieval_orders(rows, ids) ==
    LET n == Cardinality(ids) IN
    {o \in [1..n -> ids] :
        /\ \A i, j \in 1..n : i # j => o[i] # o[j]
        /\ \A i, j \in 1..n : i < j => posted_desc_nullslast(rows[o[i]], rows[o[j]])}

Min(a, b) == IF a <= b THEN a ELSE b

\* .offset((page - 1) * per_page).limit(per_page)
offset_limit(o, page, per_page) ==
    SubSeq(o, (page - 1) * per_page + 1, Min(Len(o), page * per_page))

\* the sort key of match_jobs: x.score or 0.0
sort_key(x) == x.score

RECURSIVE insert_desc_unstable(_, _)
\* insert_desc with x placed before the elements of equal key
insert_desc_unstable(x, l) ==
    IF l = <<>> THEN <<x>>
    ELSE IF sort_key(l[1]) > sort_key(x) THEN <<l[1]>> \o insert_desc_unstable(x, Tail(l))
    ELSE <<x>> \o l

RECURSIVE insert_desc(_, _)
\* x placed after every element whose key is >= the key of x
insert_desc(x, l) ==
    IF l = <<>> THEN <<x>>
    ELSE IF sort_key(l[1]) >= sort_key(x) THEN <<l[1]>> \o insert_desc(x, Tail(l))
    ELSE <<x>> \o l

RECURSIVE sort_score_asc(_)
\* the sort without reverse=True: ascending
sort_score_asc(l) ==
    IF l = <<>> THEN <<>>
    ELSE LET rest == sort_score_asc(SubSeq(l, 1, Len(l) - 1))
             x == l[Len(l)]
             k == Cardinality({i \in DOMAIN rest : sort_key(rest[i]) <= sort_key(x)})
         IN  SubSeq(rest, 1, k) \o <<x>> \o SubSeq(rest, k + 1, Len(rest))

RECURSIVE sort_score_desc(_)
\* scored.sort(key=..., reverse=True): descending, equal keys keep their order
sort_score_desc(l) ==
    IF l = <<>> THEN <<>>
    ELSE insert_desc(l[Len(l)], sort_score_desc(SubSeq(l, 1, Len(l) - 1)))

----------------------------------------------------------------------------
(* The inputs of the handlers *)

\* the clock of the pipeline ranges over 0, 30, ..., 30 * MaxTick days
MaxTick == 1

\* the Job table holds at most MaxJobs rows
MaxJobs == 2

MaxPage == 2

MaxPerPage == 2

Instants == {k * DEFAULT_DECAY_DAYS : k \in 0..MaxTick}

PayPython ==
    [title |-> TxtPython, company |-> TxtAcme,
     location |-> Some(TxtPune), remote |-> Some(FALSE),
     description |-> Some(TxtPythonLower),
     url |-> Some(TxtUrlA), source |-> Some(TxtManual),
     salary_min |-> None, salary_max |-> Some(60),
     tags |-> Some(<<TxtPython>>), posted_at |-> None]

PayDataEngineer ==
    [title |-> TxtDataEngineer, company |-> TxtAcme,
     location |-> Some(TxtPuneIndia), remote |-> Some(TRUE),
     description |-> None,
     url |-> Some(TxtUrlB), source |-> Some(TxtLinkedin),
     salary_min |-> Some(40), salary_max |-> None,
     tags |-> None, posted_at |-> Some(0)]

\* matches PayDataEngineer by (company, title, location), not by URL
PayDataEngineerAgain ==
    [title |-> TxtDataEngineer, company |-> TxtAcmeLower,
     location |-> Some(TxtPuneIndia), remote |-> None,
     description |-> Some(TxtPythonLower),
     url |-> None, source |-> Some(TxtManual),
     salary_min |-> None, salary_max |-> Some(60),
     tags |-> Some(<<TxtSql>>), posted_at |-> Some(DEFAULT_DECAY_DAYS)]

PayMlEngineer ==
    [title |-> TxtMlEngineer, company |-> TxtAcme,
     location |-> None, remote |-> None,
     description |-> Some(TxtRemoteInternshipOpportunity),
     url |-> None, source |-> Some(TxtIndeed),
     salary_min |-> None, salary_max |-> Some(40),
     tags |-> None, posted_at |-> Some(0)]

CreatePayloads == {PayPython, PayDataEngineer, PayDataEngineerAgain, PayMlEngineer}

\* the bodies of PUT /preferences: the fields a body sets are its domain
PrefsPayloads ==
    { [job_titles |-> Some(<<TxtEngineerLower>>), locations |-> None, remote_only |-> None,
       min_salary |-> None, tech_stack |-> Some(<<TxtPythonLower>>),
       keywords_include |-> None, keywords_exclude |-> None],
      [remote_only |-> Some(TRUE), min_salary |-> Some(50),
       keywords_include |-> Some(<<TxtPythonLower>>)] }

NoFilters ==
    [title |-> None, company |-> None, locations |-> None, remote |-> None,
     min_salary |-> None, posted_within_days |-> None, tags |-> None]

\* the query parameters of GET /api/jobs/
ListQueries ==
    { NoFilters,
      [NoFilters EXCEPT !.title = Some(TxtEngineerLower), !.company = Some(TxtAcmeLower)],
      [NoFilters EXCEPT !.remote = Some(TRUE), !.min_salary = Some(50)],
      [NoFilters EXCEPT !.posted_within_days = Some(DEFAULT_DECAY_DAYS)],
      [NoFilters EXCEPT !.locations = Some(<<TxtPuneLower>>), !.tags = Some(<<TxtPythonLower>>)] }

----------------------------------------------------------------------------
(* The handlers *)

\* the values n successive reads of the clock may return, none before from
clock_reads(n, from) ==
    {r \in [1..n -> Instants] :
        /\ \A i \in 1..n : r[i] >= from
        /\ \A i, j \in 1..n : i < j => r[i] <= r[j]}

last_read(r, from) == IF r = <<>> THEN from ELSE r[Len(r)]

\* the loop of list_jobs and match_jobs over the rows ids, reads[i] the clock in
\* the i-th call of compute_relevance
score_rows(ids, reads) ==
    [i \in 1..Len(ids) |-> JobOut(ids[i], jobs[ids[i]], compute_relevance(jobs[ids[i]], prefs, reads[i]))]

rows_raise(ids) == \E i \in DOMAIN ids : compute_relevance_raises(jobs[ids[i]], prefs)

\* GET /api/jobs/
list_jobs(page, per_page, f) ==
    /\ resp.op = "none"
    /\ \E t0 \in {t \in Instants : t >= now /\ (IsNone(f.posted_within_days) => t = now)} :
       LET ids == {i \in DOMAIN jobs : apply_filters(jobs[i], f, t0)} IN
       \E o \in retrieval_orders(jobs, ids) :
       LET items == offset_limit(o, page, per_page) IN
       \E reads \in clock_reads(Len(items), t0) :
          /\ resp' = IF rows_raise(items)
                     THEN [NoResp EXCEPT !.op = "list", !.status = "raised"]
                     ELSE [op |-> "list", status |-> "ok", items |-> score_rows(items, reads),
                           reads |-> reads, page |-> page, per_page |-> per_page,
                           order |-> o, retrieved |-> items, total |-> Cardinality(ids)]
          /\ now' = last_read(reads, t0)
    /\ UNCHANGED <<jobs, prefs, call>>
    /\ UNCHANGED <<inflight, mongo_vars>>

\* GET /api/jobs/match
match_jobs(page, per_page) ==
    /\ resp.op = "none"
    /\ LET ids == {i \in DOMAIN jobs : pre_filter(jobs[i], prefs)} IN
       \E o \in retrieval_orders(jobs, ids) :
       LET items == offset_limit(o, page, per_page) IN
       \E reads \in clock_reads(Len(items), now) :
          /\ resp' = IF rows_raise(items)
                     THEN [NoResp EXCEPT !.op = "match", !.status = "raised"]
                     ELSE [op |-> "match", status |-> "ok",
                           items |-> sort_score_desc(score_rows(items, reads)),
                           reads |-> reads, page |-> page, per_page |-> per_page,
                           order |-> o, retrieved |-> items, total |-> Cardinality(ids)]
          /\ now' = last_read(reads, now)
    /\ UNCHANGED <<jobs, prefs, call>>
    /\ UNCHANGED <<inflight, mongo_vars>>

\* the rows create_job finds for a payload: by URL first, else by
\* (company, title, location)
existing_rows(payload) ==
    LET by_url ==
            IF TruthySeq(payload.url)
            THEN {i \in DOMAIN jobs :
                     ~IsNone(jobs[i].url) /\ str_lower(Val(jobs[i].url)) = str_lower(Val(payload.url))}
            ELSE {}
        by_key ==
            {i \in DOMAIN jobs :
                /\ str_lower(jobs[i].company) = str_lower(payload.company)
                /\ str_lower(jobs[i].title) = str_lower(payload.title)
                /\ ~IsNone(jobs[i].location)
                /\ str_lower(Val(jobs[i].location)) = str_lower(Val(or_str(payload.location)))}
    IN  IF by_url # {} THEN by_url ELSE by_key

\* the light update of an existing row
updated_row(existing, payload) ==
    [existing EXCEPT
        !.description = IF TruthySeq(payload.description) THEN payload.description ELSE @,
        !.salary_min = IF ~IsNone(payload.salary_min) THEN payload.salary_min ELSE @,
        !.salary_max = IF ~IsNone(payload.salary_max) THEN payload.salary_max ELSE @,
        !.remote = IF ~IsNone(payload.remote) THEN payload.remote ELSE @,
        !.source = IF TruthySeq(payload.source) THEN payload.source ELSE @,
        !.posted_at = IF ~IsNone(payload.posted_at) THEN payload.posted_at ELSE @,
        !.tags = IF TruthySeq(payload.tags)
                 THEN Some(list_of_set(Range(Val(or_list(@))) \cup Range(Val(payload.tags))))
                 ELSE @]

\* the row inserted for a payload, utcnow the clock read for posted_at
new_row(payload, utcnow) ==
    [payload EXCEPT
        !.posted_at = IF ~IsNone(payload.posted_at) THEN payload.posted_at ELSE Some(utcnow),
        !.tags = IF TruthySeq(payload.tags) THEN payload.tags ELSE None]

\* POST /api/jobs/
create_job(payload) ==
    /\ resp.op = "none"
    /\ LET found == existing_rows(payload) IN
       \E reads \in clock_reads(2, now) :
          /\ (found = {} /\ ~IsNone(payload.posted_at)) => reads[1] = now
          /\ found # {} => reads[1] = now
          /\ \E id \in (IF found # {} THEN found ELSE {Len(jobs) + 1}) :
             LET job == IF found # {} THEN updated_row(jobs[id], payload)
                        ELSE new_row(payload, reads[1])
             IN  /\ found = {} => Len(jobs) < MaxJobs
                 /\ jobs' = IF found # {} THEN [jobs EXCEPT ![id] = job] ELSE Append(jobs, job)
                 /\ resp' = IF compute_relevance_raises(job, prefs)
                            THEN [NoResp EXCEPT !.op = "create", !.status = "raised"]
                            ELSE [NoResp EXCEPT !.op = "create", !.status = "ok",
                                     !.items = <<JobOut(id, job, compute_relevance(job, prefs, reads[2]))>>,
                                     !.reads = <<reads[2]>>, !.retrieved = <<id>>]
          /\ now' = reads[2]
    /\ UNCHANGED <<prefs, call>>
    /\ UNCHANGED <<inflight, mongo_vars>>

\* a UserPreferences row as _get_or_create_preferences creates it
EmptyPrefs == [f \in PrefFields |-> None]

\* PUT /preferences
update_preferences(payload) ==
    /\ resp.op = "none"
    /\ LET old == IF IsNone(prefs) THEN EmptyPrefs ELSE Val(prefs) IN
       prefs' = Some([f \in PrefFields |-> IF f \in DOMAIN payload THEN payload[f] ELSE old[f]])
    /\ resp' = [NoResp EXCEPT !.op = "prefs", !.status = "ok"]
    /\ UNCHANGED <<now, jobs, call>>
    /\ UNCHANGED <<inflight, mongo_vars>>

\* the response is returned and the server is ready for the next request
Deliver ==
    /\ resp.op # "none"
    /\ resp' = NoResp
    /\ UNCHANGED <<now, jobs, prefs, call>>
    /\ UNCHANGED <<inflight, mongo_vars>>

\* time passes between requests
Tick ==
    /\ resp.op = "none"
    /\ now + DEFAULT_DECAY_DAYS \in Instants
    /\ now' = now + DEFAULT_DECAY_DAYS
    /\ UNCHANGED <<jobs, prefs, resp, call>>
    /\ UNCHANGED <<inflight, mongo_vars>>

Init ==
    /\ now = 0
    /\ jobs = <<>>
    /\ prefs = None
    /\ resp = NoResp
    /\ call = NoCall
    /\ inflight = NoInflight
    /\ MongoInit

Next ==
    \/ \E page \in 1..MaxPage, per_page \in 1..MaxPerPage, f \in ListQueries :
           list_jobs(page, per_page, f)
    \/ \E page \in 1..MaxPage, per_page \in 1..MaxPerPage : match_jobs(page, per_page)
    \/ \E payload \in CreatePayloads : create_job(payload)
    \/ \E payload \in PrefsPayloads : update_preferences(payload)
    \/ Deliver
    \/ Tick

Spec == Init /\ [][Next]_vars

----------------------------------------------------------------------------
(* The concurrent specifications.  list_jobs and create_job are plain `def`   *)
(* endpoints, which the framework runs on threads of a pool: two requests are *)
(* served at once, each with its own Session, and their steps interleave.    *)
(* A step is what one thread does between two accesses to the database or    *)
(* the clock.  SpecConc interleaves two list_jobs requests over a loaded     *)
(* table with changes of the preferences; SpecRace interleaves two           *)
(* create_job requests.                                                      *)

\* the threads serving requests
Workers == {"w1", "w2"}

IdleWorker == [op |-> "idle"]

ConcPayloads == {PayPython, PayMlEngineer}

\* a body of PUT /preferences under which the scoring of a row without
\* location raises
ConcPrefsPayloads ==
    { [remote_only |-> Some(TRUE), min_salary |-> Some(50),
       locations |-> Some(<<TxtPuneLower>>)] }

\* the turn of the loop by a compute_relevance that lowercases the title of the
\* job it is given in place
score_next_in_place(pass, utcnow) ==
    LET k == Len(pass.scores) + 1 IN
    [pass EXCEPT !.scores = Append(@, compute_relevance(pass.items[k].job, pass.prefs, utcnow)),
                 !.reads = Append(@, utcnow),
                 !.items[k].job.title = str_lower(@)]

\* list_jobs, the i-th turn of its loop: compute_relevance(job, prefs) on the
\* next loaded row, utcnow the clock read inside the call, and the score kept
\* for the JobOut
score_next(pass, utcnow) ==
    LET k == Len(pass.scores) + 1 IN
    [pass EXCEPT !.scores = Append(@, compute_relevance(pass.items[k].job, pass.prefs, utcnow)),
                 !.reads = Append(@, utcnow)]

\* list_jobs without filters, up to .all(): the count, the preferences row and
\* the rows of the first page are loaded into the objects of this request.
\* The three queries are taken as one step.
ListLoad(w) ==
    /\ inflight[w].op = "idle"
    /\ \E o \in retrieval_orders(jobs, DOMAIN jobs) :
           inflight' = [inflight EXCEPT ![w] =
                           [op |-> "list", prefs |-> prefs, total |-> Len(jobs), order |-> o,
                            items |-> [i \in 1..Len(o) |-> [id |-> o[i], job |-> jobs[o[i]]]],
                            scores |-> <<>>, reads |-> <<>>]]
    /\ UNCHANGED <<now, jobs, prefs, resp, call>>
    /\ UNCHANGED mongo_vars

\* list_jobs, one turn of the scoring loop; an exception of compute_relevance
\* ends the loop
ScoreStep(w) ==
    /\ inflight[w].op = "list"
    /\ Len(inflight[w].scores) < Len(inflight[w].items)
    /\ LET pass == inflight[w]
           job == pass.items[Len(pass.scores) + 1].job
       IN  inflight' = [inflight EXCEPT ![w] =
                           IF compute_relevance_raises(job, pass.prefs)
                           THEN [pass EXCEPT !.op = "raised"]
                           ELSE score_next(pass, now)]
    /\ UNCHANGED <<now, jobs, prefs, resp, call>>
    /\ UNCHANGED mongo_vars

\* list_jobs returns its SearchResponse, or the exception leaves the handler
ListReturn(w) ==
    /\ \/ inflight[w].op = "raised"
       \/ inflight[w].op = "list" /\ Len(inflight[w].scores) = Len(inflight[w].items)
    /\ resp.op = "none"
    /\ LET pass == inflight[w] IN
       resp' = IF pass.op = "raised"
               THEN [NoResp EXCEPT !.op = "list", !.status = "raised"]
               ELSE
               [op |-> "list", status |-> "ok",
                items |-> [i \in 1..Len(pass.items) |->
                              JobOut(pass.items[i].id, pass.items[i].job, pass.scores[i])],
                reads |-> pass.reads, page |-> 1, per_page |-> 25,
                order |-> pass.order, retrieved |-> pass.order, total |-> pass.total]
    /\ inflight' = [inflight EXCEPT ![w] = IdleWorker]
    /\ UNCHANGED <<now, jobs, prefs, call>>
    /\ UNCHANGED mongo_vars

\* the create_job requests that found no row and have not committed yet
pending_inserts == {w \in Workers : inflight[w].op = "create" /\ IsNone(inflight[w].existing)}

\* create_job, the two queries for an existing row: .first() returns one of
\* the rows found, or None
CreateLookup(w, payload) ==
    /\ inflight[w].op = "idle"
    /\ Len(jobs) + Cardinality(pending_inserts) < MaxJobs
    /\ LET found == existing_rows(payload) IN
       \E existing \in (IF found = {} THEN {None} ELSE {Some(i) : i \in found}) :
           inflight' = [inflight EXCEPT ![w] =
                           [op |-> "create", payload |-> payload, existing |-> existing]]
    /\ UNCHANGED <<now, jobs, prefs, resp, call>>
    /\ UNCHANGED mongo_vars

\* create_job from `if existing:` on: the update or the insert is committed,
\* the preferences are read and the JobOut is returned with its score
CreateCommit(w) ==
    /\ inflight[w].op = "create"
    /\ resp.op = "none"
    /\ LET payload == inflight[w].payload
           existing == inflight[w].existing
           id == IF IsNone(existing) THEN Len(jobs) + 1 ELSE Val(existing)
           job == IF IsNone(existing) THEN new_row(payload, now)
                  ELSE updated_row(jobs[id], payload)
       IN  /\ jobs' = IF IsNone(existing) THEN Append(jobs, job) ELSE [jobs EXCEPT ![id] = job]
           /\ resp' = IF compute_relevance_raises(job, prefs)
                      THEN [NoResp EXCEPT !.op = "create", !.status = "raised"]
                      ELSE [NoResp EXCEPT !.op = "create", !.status = "ok",
                               !.items = <<JobOut(id, job, compute_relevance(job, prefs, now))>>,
                               !.reads = <<now>>, !.retrieved = <<id>>]
    /\ inflight' = [inflight EXCEPT ![w] = IdleWorker]
    /\ UNCHANGED <<now, prefs, call>>
    /\ UNCHANGED mongo_vars

\* time passes while requests are being served
Elapse ==
    /\ now + DEFAULT_DECAY_DAYS \in Instants
    /\ now' = now + DEFAULT_DECAY_DAYS
    /\ UNCHANGED <<jobs, prefs, resp, call>>
    /\ UNCHANGED <<inflight, mongo_vars>>

\* the table the list_jobs requests run over: the rows two create_job calls
\* have inserted
ConcTable == <<new_row(PayPython, 0), new_row(PayMlEngineer, 0)>>

ConcInit ==
    /\ now = 0
    /\ jobs = ConcTable
    /\ prefs = None
    /\ resp = NoResp
    /\ call = NoCall
    /\ inflight = [w \in Workers |-> IdleWorker]
    /\ MongoInit

ConcNext ==
    \/ \E w \in Workers : ListLoad(w)
    \/ \E w \in Workers : ScoreStep(w)
    \/ \E w \in Workers : ListReturn(w)
    \/ \E payload \in ConcPrefsPayloads : update_preferences(payload)
    \/ Deliver
    \/ Elapse

SpecConc == ConcInit /\ [][ConcNext]_vars

RaceInit ==
    /\ now = 0
    /\ jobs = <<>>
    /\ prefs = None
    /\ resp = NoResp
    /\ call = NoCall
    /\ inflight = [w \in Workers |-> IdleWorker]
    /\ MongoInit

RaceNext ==
    \/ \E w \in Workers, payload \in ConcPayloads : CreateLookup(w, payload)
    \/ \E w \in Workers : CreateCommit(w)
    \/ \E payload \in ConcPrefsPayloads : update_preferences(payload)
    \/ Deliver
    \/ Elapse

SpecRace == RaceInit /\ [][RaceNext]_vars

----------------------------------------------------------------------------
(* The utility specification: one direct call of tokenize, jaccard, time_decay *)
(* or apply_filters on drawn inputs                                            *)

\* the texts given to tokenize have at most MaxTextLen characters
MaxTextLen == 3

TextChars == {"a", "T", "o", "+", " ", CapitalIWithDot}

Texts == UNION {[1..n -> TextChars] : n \in 0..MaxTextLen}

\* the lists given to jaccard have at most MaxListLen tokens
MaxListLen == 2

TokenLists == UNION {[1..n -> {TxtPythonLower, TxtSql, TxtRemoteLower}] : n \in 0..MaxListLen}

\* in the utility specification the clock and the posting dates range over
\* 0, 60, ..., 60 * UtilTicks days, multiples of both half-lives
UtilTicks == 8

HalfLives == {DEFAULT_DECAY_DAYS, 2 * DEFAULT_DECAY_DAYS}

UtilInstants == {k * 2 * DEFAULT_DECAY_DAYS : k \in 0..UtilTicks}

\* the rows and the clock given to apply_filters: posting dates and cutoffs
\* range over 0, 30, ..., 30 * FilterTicks days
FilterTicks == 2

FilterInstants == {k * DEFAULT_DECAY_DAYS : k \in 0..FilterTicks}

FilterSalaries == {None, Some(40), Some(60)}

FilterJobs ==
    {[InternJob EXCEPT !.salary_min = a, !.salary_max = b, !.posted_at = c] :
        a \in FilterSalaries, b \in FilterSalaries,
        c \in {None} \cup {Some(t) : t \in FilterInstants}}

FilterQueries ==
    ListQueries
        \cup {[NoFilters EXCEPT !.min_salary = Some(t)] : t \in {0, 50}}
        \cup {[NoFilters EXCEPT !.posted_within_days = Some(n)] : n \in {0, 2 * DEFAULT_DECAY_DAYS}}
        \cup {[NoFilters EXCEPT !.posted_within_days = Some(DEFAULT_DECAY_DAYS),
                                !.min_salary = Some(50)]}

\* the tables the selectors are run on hold at most MaxRows rows
MaxRows == 2

TableRows ==
    {new_row(PayPython, DEFAULT_DECAY_DAYS), new_row(PayDataEngineer, 0),
     new_row(PayMlEngineer, 0)}

Tables == UNION {[1..n -> TableRows] : n \in 0..MaxRows}

\* the preferences rows the pre-filter is built from
UtilPrefs ==
    {None, Some(FullPrefs), Some(ScenarioPrefs), Some(PythonPrefs),
     Some([EmptyPrefs EXCEPT !.job_titles = Some(<<TxtEngineerLower>>)]),
     Some([EmptyPrefs EXCEPT !.job_titles = Some(<<TxtMlUnderscoreEngineer>>)]),
     Some([EmptyPrefs EXCEPT !.min_salary = Some(50)])}

\* the jobs and the preferences rows given to compute_relevance directly
RelevanceJobs ==
    {InternJob, InternJobOnsite, PythonJob, null_fields(InternJob, OptionalJobFields)}

RelevancePrefs ==
    UtilPrefs \cup {Some(ScenarioExcludePrefs), Some(PythonExcludePrefs)}

\* .first() in the place of .all(): the first kept row alone
kept_by_filters_first(rows, f, utcnow) ==
    LET keep(job) == apply_filters(job, f, utcnow)
        kept == SelectSeq(rows, keep)
    IN  SubSeq(kept, 1, Min(1, Len(kept)))

\* apply_filters(base_job_query(db), ...).all(): the rows of the table that the
\* query built at the instant utcnow returns, in table order
kept_by_filters(rows, f, utcnow) ==
    LET keep(job) == apply_filters(job, f, utcnow) IN SelectSeq(rows, keep)

\* the rows of the table that the pre-filter query of match_jobs returns
kept_by_pre_filter(rows, prefs_opt) ==
    LET keep(job) == pre_filter(job, prefs_opt) IN SelectSeq(rows, keep)

UtilInit ==
    /\ now = 0
    /\ jobs = <<>>
    /\ prefs = None
    /\ resp = NoResp
    /\ call = NoCall
    /\ inflight = NoInflight
    /\ MongoInit

\* tokenize(text)
TokenizeCall ==
    /\ call.fn = "none"
    /\ \E text \in {None} \cup {Some(t) : t \in Texts} :
           call' = [fn |-> "tokenize", args |-> <<text>>, status |-> "ok",
                    result |-> tokenize(text)]
    /\ UNCHANGED <<now, jobs, prefs, resp>>
    /\ UNCHANGED <<inflight, mongo_vars>>

\* jaccard(a, b)
JaccardCall ==
    /\ call.fn = "none"
    /\ \E a \in TokenLists, b \in TokenLists :
           call' = IF jaccard_raises(a, b)
                   THEN [fn |-> "jaccard", args |-> <<a, b>>, status |-> "raised",
                         result |-> <<>>]
                   ELSE [fn |-> "jaccard", args |-> <<a, b>>, status |-> "ok",
                         result |-> jaccard(a, b)]
    /\ UNCHANGED <<now, jobs, prefs, resp>>
    /\ UNCHANGED <<inflight, mongo_vars>>

\* time_decay(posted_at, half_life_days) called at the instant utcnow
TimeDecayCall ==
    /\ call.fn = "none"
    /\ \E posted_at \in {None} \cup {Some(t) : t \in UtilInstants},
          half_life_days \in HalfLives, utcnow \in UtilInstants :
           call' = [fn |-> "time_decay", args |-> <<posted_at, half_life_days, utcnow>>,
                    status |-> "ok",
                    result |-> time_decay(posted_at, half_life_days, utcnow)]
    /\ UNCHANGED <<now, jobs, prefs, resp>>
    /\ UNCHANGED <<inflight, mongo_vars>>

\* the query apply_filters(q, ...) builds at the instant utcnow, evaluated on one row
ApplyFiltersCall ==
    /\ call.fn = "none"
    /\ \E job \in FilterJobs, f \in FilterQueries, utcnow \in FilterInstants :
           call' = [fn |-> "apply_filters", args |-> <<job, f, utcnow>>, status |-> "ok",
                    result |-> apply_filters(job, f, utcnow)]
    /\ UNCHANGED <<now, jobs, prefs, resp>>
    /\ UNCHANGED <<inflight, mongo_vars>>

\* rows are put in the Job table
LoadTable ==
    /\ call.fn = "none"
    /\ jobs = <<>>
    /\ \E rows \in Tables \ {<<>>} : jobs' = rows
    /\ UNCHANGED <<now, prefs, resp, call>>
    /\ UNCHANGED <<inflight, mongo_vars>>

\* the query of list_jobs, built at the instant utcnow, is run on the table
FilterQueryCall ==
    /\ call.fn = "none"
    /\ \E f \in FilterQueries, utcnow \in FilterInstants :
           call' = [fn |-> "filter_query", args |-> <<f, utcnow>>, status |-> "ok",
                    result |-> kept_by_filters(jobs, f, utcnow)]
    /\ UNCHANGED <<now, jobs, prefs, resp>>
    /\ UNCHANGED <<inflight, mongo_vars>>

\* the pre-filter query of match_jobs, built from the preferences p, is run on
\* the table
PreFilterQueryCall ==
    /\ call.fn = "none"
    /\ \E p \in UtilPrefs :
           call' = [fn |-> "pre_filter_query", args |-> <<p>>, status |-> "ok",
                    result |-> kept_by_pre_filter(jobs, p)]
    /\ UNCHANGED <<now, jobs, prefs, resp>>
    /\ UNCHANGED <<inflight, mongo_vars>>

\* compute_relevance(job, prefs) called at the instant utcnow; the table plays
\* no part in it
ComputeRelevanceCall ==
    /\ call.fn = "none"
    /\ jobs = <<>>
    /\ \E job \in RelevanceJobs, p \in RelevancePrefs, utcnow \in UtilInstants :
           call' = IF compute_relevance_raises(job, p)
                   THEN [fn |-> "compute_relevance", args |-> <<job, p, utcnow>>,
                         status |-> "raised", result |-> <<>>]
                   ELSE [fn |-> "compute_relevance", args |-> <<job, p, utcnow>>,
                         status |-> "ok", result |-> compute_relevance(job, p, utcnow)]
    /\ UNCHANGED <<now, jobs, prefs, resp>>
    /\ UNCHANGED <<inflight, mongo_vars>>

UtilNext ==
    \/ TokenizeCall
    \/ JaccardCall
    \/ TimeDecayCall
    \/ ApplyFiltersCall
    \/ LoadTable
    \/ FilterQueryCall
    \/ PreFilterQueryCall
    \/ ComputeRelevanceCall

SpecUtil == UtilInit /\ [][UtilNext]_vars

----------------------------------------------------------------------------
(* The Mongo side: the connection manager of db/connection.py and the routers  *)
(* of app/routers/jobs.py and app/routers/applications.py over the collections *)
(* of db/models.py.  Identifiers and messages are compared whole and are plain *)
(* strings here.                                                               *)

\* The 24-digit hexadecimal strings bson.ObjectId accepts, and one it rejects.
WellFormedIds == {"65a000000000000000000001", "65a000000000000000000002"}

MalformedIds == {"42"}

PathIds == WellFormedIds \cup MalformedIds

\* ObjectId(s) raises bson.errors.InvalidId unless s is a well-formed identifier.
ObjectId_raises(s) == s \notin WellFormedIds

\* The outcome of a try block: the exception it raised or the value it returned.
raised(exc) == [raised |-> TRUE, exc |-> exc]

returned(value) == [raised |-> FALSE, value |-> value]

\* HTTPException(status_code, detail)
HTTPException(status_code, detail) ==
    [type |-> "HTTPException", status_code |-> status_code, detail |-> detail]

InvalidId == [type |-> "InvalidId"]

PyMongoError == [type |-> "PyMongoError"]

\* except Exception as e: raise HTTPException(status_code, f"{prefix}: {str(e)}").
\* Every exception of the try block is an Exception, an HTTPException raised
\* inside it included.
except_Exception(outcome, status_code, prefix) ==
    IF outcome.raised
    THEN [status |-> status_code, detail |-> <<prefix, outcome.exc>>]
    ELSE [status |-> 200, body |-> outcome.value]

\* Collections are functions from _id to document.
insert_one(collection, id, doc) ==
    [i \in DOMAIN collection \cup {id} |-> IF i = id THEN doc ELSE collection[i]]

delete_one(collection, id) ==
    [i \in DOMAIN collection \ {id} |-> collection[i]]

\* update_one(..., {"$set": update_dict}) on the document a filter matched.
update_one(collection, id, update_dict) ==
    [i \in DOMAIN collection |->
        IF i = id
        THEN [status |-> IF IsNone(update_dict.status) THEN collection[i].status
                         ELSE Val(update_dict.status),
              notes  |-> IF IsNone(update_dict.notes) THEN collection[i].notes
                         ELSE update_dict.notes,
              user_id |-> collection[i].user_id,
              job_id |-> collection[i].job_id,
              applied_at |-> collection[i].applied_at]
        ELSE collection[i]]

\* Inputs of the routers.
JobData == {[title |-> "ML Engineer"]}

ApplicationCreates ==
    {[user_id |-> u, job_id |-> "65a000000000000000000001", notes |-> None] :
        u \in {"65a000000000000000000002", "42"}}

ApplicationUpdates ==
    {[status |-> Some("interview"), notes |-> None],
     [status |-> None, notes |-> None]}

\* What a handler answered: the handler, its path identifier, whether the
\* Mongo operation failed, whether the identifier matched a document, and the
\* HTTP status and payload.
Answer(op, id, failed, matched, http) ==
    [op |-> op, id |-> id, failed |-> failed, matched |-> matched, http |-> http]

\* routers/jobs.py get_job
get_job_try(job_id, fails) ==
    IF ObjectId_raises(job_id) THEN raised(InvalidId)
    ELSE IF fails THEN raised(PyMongoError)
    ELSE IF job_id \notin DOMAIN jobs_collection
         THEN raised(HTTPException(404, "Job not found"))
    ELSE returned(jobs_collection[job_id])

get_job(job_id, fails) ==
    /\ reply' = Answer("get_job", job_id, fails, job_id \in DOMAIN jobs_collection,
                       except_Exception(get_job_try(job_id, fails), 400, "Invalid job ID"))
    /\ UNCHANGED <<client, db, link, jobs_collection, applications_collection>>
    /\ UNCHANGED <<sql_vars, inflight>>

\* routers/jobs.py create_job_endpoint over models.create_job: insert_one gives
\* the document a fresh _id.
create_job_endpoint(job_data, fails) ==
    \E id \in WellFormedIds \ DOMAIN jobs_collection :
        /\ jobs_collection' = IF fails THEN jobs_collection
                              ELSE insert_one(jobs_collection, id, job_data)
        /\ reply' = Answer("create_job_endpoint", id, fails, FALSE,
                           IF fails
                           THEN [status |-> 500, detail |-> <<"Error creating job", PyMongoError>>]
                           ELSE [status |-> 201, body |-> id])
        /\ UNCHANGED <<client, db, link, applications_collection>>
        /\ UNCHANGED <<sql_vars, inflight>>

\* routers/jobs.py delete_job
delete_job_try(job_id, fails) ==
    IF ObjectId_raises(job_id) THEN raised(InvalidId)
    ELSE IF fails THEN raised(PyMongoError)
    ELSE IF job_id \notin DOMAIN jobs_collection
         THEN raised(HTTPException(404, "Job not found"))
    ELSE returned("Job deleted successfully")

delete_job(job_id, fails) ==
    /\ jobs_collection' = IF ObjectId_raises(job_id) \/ fails THEN jobs_collection
                          ELSE delete_one(jobs_collection, job_id)
    /\ reply' = Answer("delete_job", job_id, fails, job_id \in DOMAIN jobs_collection,
                       except_Exception(delete_job_try(job_id, fails), 400, "Error deleting job"))
    /\ UNCHANGED <<client, db, link, applications_collection>>
    /\ UNCHANGED <<sql_vars, inflight>>

\* routers/applications.py create_application_endpoint over models.create_application
create_application_endpoint(application, fails) ==
    \E id \in WellFormedIds \ DOMAIN applications_collection :
        LET bad == ObjectId_raises(application.user_id) \/ ObjectId_raises(application.job_id)
            doc == [user_id |-> application.user_id, job_id |-> application.job_id,
                    notes |-> application.notes, status |-> "applied", applied_at |-> now]
        IN  /\ applications_collection' =
                  IF bad \/ fails THEN applications_collection
                  ELSE insert_one(applications_collection, id, doc)
            /\ reply' = Answer("create_application_endpoint", id, fails, FALSE,
                               IF bad
                               THEN [status |-> 500,
                                     detail |-> <<"Error creating application", InvalidId>>]
                               ELSE IF fails
                               THEN [status |-> 500,
                                     detail |-> <<"Error creating application", PyMongoError>>]
                               ELSE [status |-> 201, body |-> id])
            /\ UNCHANGED <<client, db, link, jobs_collection>>
            /\ UNCHANGED <<sql_vars, inflight>>

\* routers/applications.py get_application
get_application_try(application_id, fails) ==
    IF ObjectId_raises(application_id) THEN raised(InvalidId)
    ELSE IF fails THEN raised(PyMongoError)
    ELSE IF application_id \notin DOMAIN applications_collection
         THEN raised(HTTPException(404, "Application not found"))
    ELSE returned(applications_collection[application_id])

get_application(application_id, fails) ==
    /\ reply' = Answer("get_application", application_id, fails,
                       application_id \in DOMAIN applications_collection,
                       except_Exception(get_application_try(application_id, fails),
                                        400, "Invalid application ID"))
    /\ UNCHANGED <<client, db, link, jobs_collection, applications_collection>>
    /\ UNCHANGED <<sql_vars, inflight>>

\* routers/applications.py update_application
update_application_try(application_id, fails) ==
    IF ObjectId_raises(application_id) THEN raised(InvalidId)
    ELSE IF fails THEN raised(PyMongoError)
    ELSE IF application_id \notin DOMAIN applications_collection
         THEN raised(HTTPException(404, "Application not found"))
    ELSE returned("Application updated successfully")

update_application(application_id, update_data, fails) ==
    /\ applications_collection' =
          IF ObjectId_raises(application_id) \/ fails THEN applications_collection
          ELSE update_one(applications_collection, application_id, update_data)
    /\ reply' = Answer("update_application", application_id, fails,
                       application_id \in DOMAIN applications_collection,
                       except_Exception(update_application_try(application_id, fails),
                                        400, "Error updating application"))
    /\ UNCHANGED <<client, db, link, jobs_collection>>
    /\ UNCHANGED <<sql_vars, inflight>>

\* routers/applications.py delete_application
delete_application_try(application_id, fails) ==
    IF ObjectId_raises(application_id) THEN raised(InvalidId)
    ELSE IF fails THEN raised(PyMongoError)
    ELSE IF application_id \notin DOMAIN applications_collection
         THEN raised(HTTPException(404, "Application not found"))
    ELSE returned("Application deleted successfully")

delete_application(application_id, fails) ==
    /\ applications_collection' =
          IF ObjectId_raises(application_id) \/ fails THEN applications_collection
          ELSE delete_one(applications_collection, application_id)
    /\ reply' = Answer("delete_application", application_id, fails,
                       application_id \in DOMAIN applications_collection,
                       except_Exception(delete_application_try(application_id, fails),
                                        400, "Error deleting application"))
    /\ UNCHANGED <<client, db, link, jobs_collection>>
    /\ UNCHANGED <<sql_vars, inflight>>

\* db/connection.py.  The connection strings and the database name.
DefaultUrl == "mongodb://localhost:27017"

Paths == {None, Some(""), Some("mongodb://db.internal:27017")}

database_name == "job_auto_apply"

\* Where connect_to_database can stop: nowhere ("ok"), in AsyncIOMotorClient(...)
\* ("client"), in cls.client[database_name] ("database"), or in the ping ("ping").
ConnectOutcomes == {"ok", "client", "database", "ping"}

\* mongodb_url = path or os.getenv("MONGODB_URL", "mongodb://localhost:27017")
mongodb_url(path) == IF ~IsNone(path) /\ Val(path) # "" THEN Val(path) ELSE DefaultUrl

\* MongoDB.connect_to_database: the assignments made before the statement that
\* raised are kept, the except clauses log and re-raise.
connect_to_database(path, outcome) ==
    /\ client' = IF outcome = "client" THEN client ELSE Some(mongodb_url(path))
    /\ db' = IF outcome \in {"client", "database"} THEN db
             ELSE Some([client |-> mongodb_url(path), name |-> database_name])
    /\ link' = IF outcome = "ok" THEN "connected" ELSE "failed"
    /\ reply' = [op |-> "connect_to_database",
                 status |-> IF outcome = "ok" THEN "returned" ELSE "raised"]
    /\ UNCHANGED <<jobs_collection, applications_collection>>
    /\ UNCHANGED <<sql_vars, inflight>>

\* MongoDB.close_database_connection
close_database_connection ==
    /\ client' = None
    /\ db' = IF client # None THEN None ELSE db
    /\ link' = "closed"
    /\ reply' = [op |-> "close_database_connection", status |-> "returned"]
    /\ UNCHANGED <<jobs_collection, applications_collection>>
    /\ UNCHANGED <<sql_vars, inflight>>

\* MongoDB.get_database
get_database ==
    /\ reply' = IF db = None
                THEN [op |-> "get_database", status |-> "raised", exc |-> "RuntimeError"]
                ELSE [op |-> "get_database", status |-> "returned", value |-> Val(db)]
    /\ UNCHANGED <<client, db, link, jobs_collection, applications_collection>>
    /\ UNCHANGED <<sql_vars, inflight>>

MongoStart ==
    /\ now = 0
    /\ jobs = <<>>
    /\ prefs = None
    /\ resp = NoResp
    /\ call = NoCall
    /\ inflight = NoInflight
    /\ MongoInit

MongoNext ==
    \/ \E id \in PathIds, fails \in BOOLEAN : get_job(id, fails)
    \/ \E job_data \in JobData, fails \in BOOLEAN : create_job_endpoint(job_data, fails)
    \/ \E id \in PathIds, fails \in BOOLEAN : delete_job(id, fails)
    \/ \E application \in ApplicationCreates, fails \in BOOLEAN :
           create_application_endpoint(application, fails)
    \/ \E id \in PathIds, fails \in BOOLEAN : get_application(id, fails)
    \/ \E id \in PathIds, update_data \in ApplicationUpdates, fails \in BOOLEAN :
           update_application(id, update_data, fails)
    \/ \E id \in PathIds, fails \in BOOLEAN : delete_application(id, fails)
    \/ \E path \in Paths, outcome \in ConnectOutcomes : connect_to_database(path, outcome)
    \/ close_database_connection
    \/ get_database

SpecMongo == MongoStart /\ [][MongoNext]_vars

----------------------------------------------------------------------------
(* The claims about compute_relevance, checked under SpecScore *)

Scored == resp.op = "score" /\ resp.status = "ok"

\* the job of the remote-intern scenario, posted now, with the given remote flag
IsScenarioJob(job, remote) ==
    /\ job.title = TxtSoftwareEngineerIntern
    /\ job.description = Some(TxtRemoteInternshipOpportunity)
    /\ job.remote = Some(remote)
    /\ job.posted_at = Some(now)

\* C1: for every job and every preference state, the score compute_relevance
\* returns lies between 0.00 and 100.00
C1_ScoreInRange ==
    resp.op = "score" =>
        \A i \in DOMAIN resp.items : resp.items[i].score >= 0 /\ resp.items[i].score <= 10000

\* a call whose weighted sum exceeds 1.0, so that the final clamp decides the score
C1_Witness ==
    /\ Scored
    /\ ~IsNone(prefs)
    /\ RLt(ROne, weighted_sum(jobs[1], Val(prefs)))
    /\ resp.items[1].score = 10000

\* C2: in the remote-intern scenario title_match is positive and the score is
\* strictly greater than the no-preference baseline of 35.00
C2_ScenarioAboveBaseline ==
    (Scored /\ IsScenarioJob(jobs[1], TRUE) /\ prefs = Some(ScenarioPrefs)) =>
        /\ RLt(RZero, title_match(jobs[1], ScenarioPrefs))
        /\ resp.items[1].score > 3500

\* C8: with absent preferences and a posting timestamp equal to the current time
\* the score is exactly 35.00
C8_BaselineAtNow ==
    (Scored /\ IsNone(prefs) /\ jobs[1].posted_at = Some(resp.reads[1])) =>
        resp.items[1].score = 3500

C8_Witness ==
    /\ Scored
    /\ IsNone(prefs)
    /\ jobs[1].posted_at = Some(resp.reads[1])
    /\ resp.items[1].score = 3500

\* C9: compute_relevance does not raise whatever optional fields of the job and of
\* the preferences are null; it returns a number, and with absent preferences the
\* number is the baseline 35.00 scaled by a recency multiplier in [0.1, 1.0]
C9_NeverRaises ==
    resp.op = "score" =>
        /\ resp.status = "ok"
        /\ Len(resp.items) = 1
        /\ resp.items[1].score \in Nat
        /\ IsNone(prefs) => (resp.items[1].score >= 350 /\ resp.items[1].score <= 3500)

\* a call on a job and a preferences row with every optional field null
C9_Witness ==
    /\ Scored
    /\ \A f \in OptionalJobFields : IsNone(jobs[1][f])
    /\ ~IsNone(prefs)
    /\ \A f \in PrefFields : IsNone(Val(prefs)[f])
    /\ resp.items[1].score = 1000

\* C10: in the remote-intern scenario with the job's remote flag false, loc_bonus
\* is -0.2 and the score is strictly less than the score of the same job when
\* it is remote
C10_OnsiteBelowRemote ==
    (Scored /\ IsScenarioJob(jobs[1], FALSE) /\ prefs = Some(ScenarioPrefs)) =>
        /\ loc_bonus(jobs[1], ScenarioPrefs) = Rat(-2, 10)
        /\ resp.items[1].score <
               compute_relevance([jobs[1] EXCEPT !.remote = Some(TRUE)], prefs, resp.reads[1])

C10_Witness ==
    /\ Scored
    /\ IsScenarioJob(jobs[1], FALSE)
    /\ prefs = Some(ScenarioPrefs)
    /\ resp.items[1].score = 800

\* C11: for the job "Software Engineer Intern" with description "remote internship
\* opportunity", the scenario preferences with keywords_exclude = ["internship"]
\* give a score strictly less than the scenario preferences without the exclusion
\* give at the same instant, and at least one tenth of it
C11_ExclusionLowersScore ==
    (/\ Scored
     /\ jobs[1].title = TxtSoftwareEngineerIntern
     /\ jobs[1].description = Some(TxtRemoteInternshipOpportunity)
     /\ prefs = Some(ScenarioExcludePrefs)) =>
        LET unpenalized == compute_relevance(jobs[1], Some(ScenarioPrefs), resp.reads[1])
        IN  /\ resp.items[1].score < unpenalized
            /\ 10 * resp.items[1].score >= unpenalized

\* the scenario job, remote and posted now, scored with the exclusion: one of its
\* nine tokens is excluded and 11.00 becomes 9.78
C11_Witness ==
    /\ Scored
    /\ IsScenarioJob(jobs[1], TRUE)
    /\ ~IsNone(jobs[1].tags)
    /\ prefs = Some(ScenarioExcludePrefs)
    /\ resp.items[1].score = 978

\* C12: the exclusion multiplier of compute_relevance lies in [0.1, 1.0], is
\* exactly 1.0 when no excluded keyword is configured, and is not below 0.1 when
\* the excluded keywords are exactly the tokens of the job
C12_ExclusionMultiplierRange ==
    (Scored /\ ~IsNone(prefs)) =>
        LET ep == exclude_penalty(jobs[1], Val(prefs))
        IN  /\ RLe(Rat(1, 10), ep)
            /\ RLe(ep, ROne)
            /\ ~TruthySeq(Val(prefs).keywords_exclude) => ep = ROne

\* a call in which the job tokens and the excluded keywords are the same set
C12_Witness ==
    /\ Scored
    /\ ~IsNone(prefs)
    /\ Range(job_tokens_of(jobs[1])) = exclude_kw_of(Val(prefs))
    /\ exclude_penalty(jobs[1], Val(prefs)) = Rat(1, 10)

\* the job with another url, and with a source label where it has none and
\* none where it has one
relabelled(job) ==
    [job EXCEPT !.url = IF @ = Some(TxtUrlA) THEN Some(TxtUrlB) ELSE Some(TxtUrlA),
                !.source = IF IsNone(@) THEN Some(TxtManual) ELSE None]

\* C16: a job that differs from the scored one only in url and source gets the
\* same score from compute_relevance, for the same preferences at the same instant
C16_UrlSourceIrrelevant ==
    Scored =>
        LET other == relabelled(jobs[1])
        IN  /\ ~compute_relevance_raises(other, prefs)
            /\ compute_relevance(other, prefs, resp.reads[1]) = resp.items[1].score

\* a job with a url and a source scored above zero against preferences
C16_Witness ==
    /\ Scored
    /\ ~IsNone(prefs)
    /\ ~IsNone(jobs[1].url)
    /\ ~IsNone(jobs[1].source)
    /\ resp.items[1].score = 2575
    /\ compute_relevance(relabelled(jobs[1]), prefs, resp.reads[1]) = 2575

\* C26: with absent preferences the score depends on posted_at alone: every
\* job with the same posted_at gets the same score at the same instant, whatever
\* its title, description, tags, location, salaries and remote flag; and the
\* score lies in [3.50, 35.00], so it is never zero.
C26_BaselineOnlyFreshness ==
    (Scored /\ IsNone(prefs)) =>
        /\ resp.items[1].score >= 350
        /\ resp.items[1].score <= 3500
        /\ \A other \in ScoreJobs :
               other.posted_at = jobs[1].posted_at =>
                   compute_relevance(other, None, resp.reads[1]) = resp.items[1].score

\* the job "Python", which shares only its posting date with the intern job,
\* scored without preferences half a half-life or more after it was posted
C26_Witness ==
    /\ Scored
    /\ IsNone(prefs)
    /\ jobs[1] = PythonJob
    /\ resp.items[1].score < 3500
    /\ resp.items[1].score = compute_relevance(InternJob, None, resp.reads[1])

\* C27: the clamp to [0.0, 1.5] before decay and penalty never changes the
\* weighted sum, which lies in [0.065, 1.03], loc_bonus being one of -0.2, -0.1,
\* 0, 0.1, 0.2 and salary_bonus one of -0.15, 0, 0.1; and the score with
\* preferences present is strictly positive.  The sum does not depend on the
\* instant of the call, and is examined at the first instant of the clock.
C27_SumWithinClamp ==
    (Scored /\ ~IsNone(prefs)) =>
        /\ resp.items[1].score > 0
        /\ resp.reads[1] = 0 =>
               LET s == weighted_sum(jobs[1], Val(prefs))
               IN  /\ RLe(Rat(65, 1000), s)
                   /\ RLe(s, Rat(103, 100))
                   /\ clamp(RZero, Rat(15, 10), s) = s
                   /\ loc_bonus(jobs[1], Val(prefs)) \in
                          {Rat(-2, 10), Rat(-1, 10), RZero, Rat(1, 10), Rat(2, 10)}
                   /\ salary_bonus(jobs[1], Val(prefs)) \in {Rat(-15, 100), RZero, Rat(1, 10)}

\* a call whose weighted sum is the least possible, 0.065: no match, an on-site
\* job for a remote-only user, a salary below the minimum
C27_Witness ==
    /\ Scored
    /\ ~IsNone(prefs)
    /\ resp.reads[1] = 0
    /\ weighted_sum(jobs[1], Val(prefs)) = Rat(65, 1000)
    /\ loc_bonus(jobs[1], Val(prefs)) = Rat(-2, 10)
    /\ salary_bonus(jobs[1], Val(prefs)) = Rat(-15, 100)
    /\ resp.items[1].score > 0

\* the tokens of the entries of a preference list, as C22 reads them: every
\* word of every entry
entry_tokens(x) == tokenize(Some(join_space(Val(or_list(x)))))

\* C22: title_match is the Jaccard similarity of the job title tokens and the
\* tokens of the preferred titles, tech_match and include_match that of the
\* combined job tokens and the tokens of the tech-stack / included-keyword
\* entries: a multi-word entry contributes each of its words.
C22_ComponentsOverTokens ==
    (Scored /\ ~IsNone(prefs)) =>
        LET job == jobs[1]
            p == Val(prefs)
        IN  /\ title_match(job, p) = jaccard(title_tokens_of(job), entry_tokens(p.job_titles))
            /\ tech_match(job, p) = jaccard(job_tokens_of(job), entry_tokens(p.tech_stack))
            /\ include_match(job, p) =
                   jaccard(job_tokens_of(job), entry_tokens(p.keywords_include))

----------------------------------------------------------------------------
(* The claims about the ranking pipeline, checked under Spec *)

Listed == resp.op = "list" /\ resp.status = "ok"

Matched == resp.op = "match" /\ resp.status = "ok"

\* items is sorted by score descending
ScoreDescending(items) ==
    \A i \in 1..(Len(items) - 1) : items[i].score >= items[i + 1].score

\* the position of row id in the retrieved page
RetrievedPos(id) == CHOOSE k \in DOMAIN resp.retrieved : resp.retrieved[k] = id

\* the instant of a pass: its first read of the clock
PassInstant == IF resp.reads = <<>> THEN now ELSE resp.reads[1]

\* the pass read the same instant for every row
OneInstant == \A i, j \in DOMAIN resp.reads : resp.reads[i] = resp.reads[j]

\* C3: the pre-filter of match_jobs never excludes a job that scores higher than
\* a job it retains
C3_PreFilterKeepsTopScores ==
    Matched =>
        \A a, b \in DOMAIN jobs :
            (~pre_filter(jobs[a], prefs) /\ pre_filter(jobs[b], prefs)) =>
                compute_relevance(jobs[a], prefs, now) <= compute_relevance(jobs[b], prefs, now)

\* C4: the page match_jobs returns holds the candidates ranked (page - 1) * per_page + 1
\* to page * per_page by score among all the jobs that pass the pre-filter, and no
\* job of a later page scores higher than a job of the page
C4_PageOfFullRanking ==
    (Matched /\ OneInstant) =>
        LET cand == [i \in DOMAIN resp.order |->
                        JobOut(resp.order[i], jobs[resp.order[i]],
                               compute_relevance(jobs[resp.order[i]], prefs, PassInstant))]
            slice == offset_limit(sort_score_desc(cand), resp.page, resp.per_page)
        IN  /\ [i \in DOMAIN resp.items |-> resp.items[i].score]
                   = [i \in DOMAIN slice |-> slice[i].score]
            /\ \A i \in DOMAIN resp.items, k \in DOMAIN resp.order :
                   k > resp.page * resp.per_page => cand[k].score <= resp.items[i].score

\* C5 as stated: the items of every list_jobs and match_jobs response are sorted
\* by score descending
C5_BothSortedByScore ==
    (Listed \/ Matched) => ScoreDescending(resp.items)

\* C5 as amended: the items of every match_jobs response are sorted by score
\* descending; the items of a list_jobs response are the retrieved page in
\* retrieval order, posted_at descending with unknown posted_at last
C5_MatchSortedListByDate ==
    /\ Matched => ScoreDescending(resp.items)
    /\ Listed =>
          /\ [i \in DOMAIN resp.items |-> resp.items[i].id] = resp.retrieved
          /\ \A i \in 1..(Len(resp.items) - 1) :
                 posted_desc_nullslast(resp.items[i].job, resp.items[i + 1].job)

\* a match_jobs response whose sort moved the second retrieved row to the front
C5_Witness ==
    /\ Matched
    /\ Len(resp.items) = 2
    /\ resp.items[1].score > resp.items[2].score
    /\ resp.items[1].id = resp.retrieved[2]

\* C6: two items of a match_jobs response with equal scores appear in their
\* retrieval order, which is posted_at descending with unknown posted_at last
C6_StableSort ==
    Matched =>
        \A i, j \in DOMAIN resp.items :
            (i < j /\ resp.items[i].score = resp.items[j].score) =>
                /\ RetrievedPos(resp.items[i].id) < RetrievedPos(resp.items[j].id)
                /\ posted_desc_nullslast(resp.items[i].job, resp.items[j].job)

\* a match_jobs response with two items of equal score and different posted_at
C6_Witness ==
    /\ Matched
    /\ Len(resp.items) = 2
    /\ resp.items[1].score = resp.items[2].score
    /\ resp.items[1].job.posted_at # resp.items[2].job.posted_at

\* C7: within one list_jobs or match_jobs pass every job is scored against the
\* same instant, and two jobs with the same posted_at get the same recency
\* multiplier
C7_OneClockReadPerPass ==
    (Listed \/ Matched) =>
        \A i, j \in DOMAIN resp.retrieved :
            LET a == jobs[resp.retrieved[i]]
                b == jobs[resp.retrieved[j]]
            IN  /\ (~IsNone(a.posted_at) /\ ~IsNone(b.posted_at)) => resp.reads[i] = resp.reads[j]
                /\ a.posted_at = b.posted_at =>
                       time_decay(a.posted_at, DEFAULT_DECAY_DAYS, resp.reads[i])
                           = time_decay(b.posted_at, DEFAULT_DECAY_DAYS, resp.reads[j])

----------------------------------------------------------------------------
(* The claims about the utility functions and the structural filter, checked *)
(* under SpecUtil                                                            *)

Called(fn) == call.fn = fn /\ call.status = "ok"

\* C13: jaccard(a, b) returns 0.0 whenever a or b is empty, both empty included,
\* and it never raises
C13_JaccardEmptyIsZero ==
    call.fn = "jaccard" =>
        /\ call.status = "ok"
        /\ (call.args[1] = <<>> \/ call.args[2] = <<>>) => call.result = RZero

\* jaccard called on two empty lists
C13_Witness ==
    /\ Called("jaccard")
    /\ call.args[1] = <<>>
    /\ call.args[2] = <<>>
    /\ call.result = RZero

\* C14: time_decay returns a multiplier in [0.1, 1.0]: 1.0 when the timestamp is
\* absent, 1.0 when the elapsed time is <= 0, and otherwise
\* max(0.1, 0.5 ^ (elapsed / half_life))
C14_TimeDecayValue ==
    Called("time_decay") =>
        LET posted_at == call.args[1]
            half_life_days == call.args[2]
            utcnow == call.args[3]
        IN  /\ RLe(Rat(1, 10), call.result) /\ RLe(call.result, ROne)
            /\ IsNone(posted_at) => call.result = ROne
            /\ (~IsNone(posted_at) /\ utcnow - Val(posted_at) <= 0) => call.result = ROne
            /\ (~IsNone(posted_at) /\ utcnow - Val(posted_at) > 0) =>
                   call.result =
                       RMax(Rat(1, 10), Rat(1, 2 ^ ((utcnow - Val(posted_at)) \div half_life_days)))

\* a posting so old that the floor decides the multiplier
C14_Witness ==
    /\ Called("time_decay")
    /\ ~IsNone(call.args[1])
    /\ call.args[3] > Val(call.args[1])
    /\ 2 ^ ((call.args[3] - Val(call.args[1])) \div call.args[2]) > 10
    /\ call.result = Rat(1, 10)

\* C15: for a fixed half-life and a fixed current time, a posting older than
\* another gets a multiplier that is not greater
C15_TimeDecayMonotone ==
    (Called("time_decay") /\ ~IsNone(call.args[1])) =>
        \A b \in UtilInstants :
            Val(call.args[1]) < b =>
                RLe(call.result, time_decay(Some(b), call.args[2], call.args[3]))

\* a posting whose multiplier is strictly below that of a newer posting
C15_Witness ==
    /\ Called("time_decay")
    /\ ~IsNone(call.args[1])
    /\ \E b \in UtilInstants :
           /\ Val(call.args[1]) < b
           /\ RLt(call.result, time_decay(Some(b), call.args[2], call.args[3]))

\* text with each character that is neither alphanumeric nor a space replaced
\* by a space
spaced(text) ==
    [i \in 1..Len(text) |-> IF isalnum(text[i]) \/ isspace(text[i]) THEN text[i] ELSE " "]

IsCleanToken(t) ==
    /\ t # <<>>
    /\ str_lower(t) = t
    /\ \A i \in DOMAIN t : isalnum(t[i])
    /\ t \notin STOPWORDS

\* C17: every token tokenize returns is non-empty, lowercase, purely alphanumeric
\* and not a stop word; the tokens are those of the text with every character
\* that is neither alphanumeric nor a space replaced by a space, split on
\* whitespace; an empty or null text gives the empty sequence
C17_TokensClean ==
    Called("tokenize") =>
        LET text == call.args[1] IN
        /\ \A i \in DOMAIN call.result : IsCleanToken(call.result[i])
        /\ ~TruthySeq(text) => call.result = <<>>
        /\ TruthySeq(text) =>
               call.result = SelectSeq(split(str_lower(spaced(Val(text)))), IsToken)

\* the filter parameters f set nothing but the field name
OnlyFilter(f, name) == ~IsNone(f[name]) /\ [f EXCEPT ![name] = None] = NoFilters

\* C18: with posted_within_days = N > 0, apply_filters keeps a job iff its
\* posted_at is null or posted_at >= now - N days; whatever the other filters, a
\* job whose posting date is unknown is kept iff it is kept without the recency
\* filter
C18_RecencyKeepsUnknown ==
    (Called("apply_filters") /\ ~IsNone(call.args[2].posted_within_days)
                             /\ Val(call.args[2].posted_within_days) > 0) =>
        LET job == call.args[1]
            f == call.args[2]
            utcnow == call.args[3]
            N == Val(f.posted_within_days)
        IN  /\ OnlyFilter(f, "posted_within_days") =>
                   (call.result <=>
                       (IsNone(job.posted_at) \/ Val(job.posted_at) >= utcnow - N))
            /\ IsNone(job.posted_at) =>
                   call.result = apply_filters(job, [f EXCEPT !.posted_within_days = None], utcnow)

\* a job of unknown posting date kept by a recency filter
C18_Witness ==
    /\ Called("apply_filters")
    /\ OnlyFilter(call.args[2], "posted_within_days")
    /\ Val(call.args[2].posted_within_days) > 0
    /\ IsNone(call.args[1].posted_at)
    /\ call.result = TRUE

\* C19: with min_salary = t, apply_filters keeps a job iff salary_max >= t or
\* salary_min >= t
C19_SalaryDisjunction ==
    (Called("apply_filters") /\ OnlyFilter(call.args[2], "min_salary")) =>
        LET job == call.args[1]
            t == Val(call.args[2].min_salary)
        IN  call.result <=>
                \/ ~IsNone(job.salary_max) /\ Val(job.salary_max) >= t
                \/ ~IsNone(job.salary_min) /\ Val(job.salary_min) >= t

\* a job kept on its salary_min alone: its salary_max is known and below t
C19_Witness ==
    /\ Called("apply_filters")
    /\ OnlyFilter(call.args[2], "min_salary")
    /\ ~IsNone(call.args[1].salary_max)
    /\ Val(call.args[1].salary_max) < Val(call.args[2].min_salary)
    /\ ~IsNone(call.args[1].salary_min)
    /\ Val(call.args[1].salary_min) >= Val(call.args[2].min_salary)
    /\ call.result = TRUE

\* the table rows in the order pi
permuted(rows, pi) == [i \in 1..Len(rows) |-> rows[pi[i]]]

\* C20: both selectors are idempotent and order-independent: a selector applied
\* to its own output returns it unchanged, the rows kept are the same in whatever
\* order the table is, a row is kept iff it is kept when it is the only row of
\* the table, and running a selector leaves every row of the table as it was
C20_SelectorsPure ==
    [][/\ call'.fn = "filter_query" =>
              LET f == call'.args[1]
                  t == call'.args[2]
                  kept == call'.result
              IN  /\ jobs' = jobs
                  /\ Range(kept) \subseteq Range(jobs)
                  /\ kept_by_filters(kept, f, t) = kept
                  /\ \A pi \in Permutations(DOMAIN jobs) :
                         Range(kept_by_filters(permuted(jobs, pi), f, t)) = Range(kept)
                  /\ \A i \in DOMAIN jobs :
                         jobs[i] \in Range(kept) <=> kept_by_filters(<<jobs[i]>>, f, t) # <<>>
       /\ call'.fn = "pre_filter_query" =>
              LET p == call'.args[1]
                  kept == call'.result
              IN  /\ jobs' = jobs
                  /\ Range(kept) \subseteq Range(jobs)
                  /\ kept_by_pre_filter(kept, p) = kept
                  /\ \A pi \in Permutations(DOMAIN jobs) :
                         Range(kept_by_pre_filter(permuted(jobs, pi), p)) = Range(kept)
                  /\ \A i \in DOMAIN jobs :
                         jobs[i] \in Range(kept) <=> kept_by_pre_filter(<<jobs[i]>>, p) # <<>>
      ]_vars

\* a filter query that kept one row of a two-row table and dropped the other
C20_Witness ==
    /\ Called("filter_query")
    /\ Len(jobs) > 1
    /\ Len(call.result) > 0
    /\ Len(call.result) < Len(jobs)

\* C25: for non-empty a and b, jaccard(a, b) is |set(a) & set(b)| / |set(a) | set(b)|:
\* it does not change when a or b is replaced by a list with the same elements
\* (duplicates and order are ignored), it is symmetric, it lies in [0, 1], and
\* it is 1 exactly when the two token sets are equal.
C25_JaccardOfSets ==
    (Called("jaccard") /\ call.args[1] # <<>> /\ call.args[2] # <<>>) =>
        LET a == call.args[1]
            b == call.args[2]
            r == call.result
        IN  /\ r = Rat(Cardinality(Range(a) \cap Range(b)), Cardinality(Range(a) \cup Range(b)))
            /\ \A a2 \in TokenLists : Range(a2) = Range(a) => jaccard(a2, b) = r
            /\ \A b2 \in TokenLists : Range(b2) = Range(b) => jaccard(a, b2) = r
            /\ jaccard(b, a) = r
            /\ RLe(RZero, r) /\ RLe(r, ROne)
            /\ r = ROne <=> Range(a) = Range(b)

\* jaccard called on a list with a repeated token and a list of that token alone
C25_Witness ==
    /\ Called("jaccard")
    /\ Len(call.args[1]) = 2
    /\ call.args[1][1] = call.args[1][2]
    /\ call.args[2] = <<call.args[1][1]>>
    /\ call.result = ROne

\* the words of C24: entry is a case-insensitive substring of the column
substring_ci(col, entry) == ~IsNone(col) /\ contains(str_lower(Val(col)), str_lower(entry))

\* the rows C24 says the pre-filter keeps
kept_as_stated(job, prefs_opt) ==
    IsNone(prefs_opt) \/
    LET p == Val(prefs_opt) IN
    /\ \/ ~TruthySeq(p.job_titles) /\ ~TruthySeq(p.keywords_include)
       \/ /\ TruthySeq(p.job_titles)
          /\ \E i \in DOMAIN Val(p.job_titles) :
                 substring_ci(Some(job.title), Val(p.job_titles)[i])
       \/ /\ TruthySeq(p.keywords_include)
          /\ \E i \in DOMAIN Val(p.keywords_include) :
                 substring_ci(job.description, Val(p.keywords_include)[i])
    /\ p.remote_only = Some(TRUE) => job.remote = Some(TRUE)
    /\ TruthySeq(p.locations) =>
           \E i \in DOMAIN Val(p.locations) : substring_ci(job.location, Val(p.locations)[i])
    /\ TruthyInt(p.min_salary) =>
           \/ ~IsNone(job.salary_max) /\ Val(job.salary_max) >= Val(p.min_salary)
           \/ ~IsNone(job.salary_min) /\ Val(job.salary_min) >= Val(p.min_salary)

\* C24: the pre-filter of match_jobs keeps a row exactly when no title/keyword
\* predicate exists or some preferred title is a case-insensitive substring of
\* the title or some included keyword one of the description, and the remote,
\* location and salary filters that are present hold; absent preferences keep
\* every row.
C24_PreFilterKeepsAsStated ==
    Called("pre_filter_query") =>
        \A i \in DOMAIN jobs :
            (\E k \in DOMAIN call.result : call.result[k] = jobs[i])
                <=> kept_as_stated(jobs[i], call.args[1])

\* C23: with preferences present the score is
\* round(100 * clamp(clamp(s, 0, 1.5) * exclusion_multiplier * recency, 0, 1), 2)
\* for the weighted sum s: the exclusion multiplier and the recency multiply the
\* clamped sum, so the value before the final clamp is the recency times the
\* value of the same job when fresh, and the exclusion multiplier times the
\* value without excluded keywords.
C23_ScoreComposition ==
    (Called("compute_relevance") /\ ~IsNone(call.args[2])) =>
        LET job == call.args[1]
            p == Val(call.args[2])
            utcnow == call.args[3]
            s == clamp(RZero, Rat(15, 10), weighted_sum(job, p))
            ep == exclude_penalty(job, p)
            recency == time_decay(job.posted_at, DEFAULT_DECAY_DAYS, utcnow)
            fresh == RMul(s, ep)
            unpenalised == RMul(s, recency)
            before_clamp == RMul(RMul(s, ep), recency)
        IN  /\ call.result = round2_of_100x(clamp(RZero, ROne, before_clamp))
            /\ before_clamp = RMul(recency, fresh)
            /\ before_clamp = RMul(ep, unpenalised)

\* a call in which the exclusion multiplier and the recency are both below 1
C23_Witness ==
    /\ Called("compute_relevance")
    /\ ~IsNone(call.args[2])
    /\ RLt(exclude_penalty(call.args[1], Val(call.args[2])), ROne)
    /\ RLt(time_decay(call.args[1].posted_at, DEFAULT_DECAY_DAYS, call.args[3]), ROne)
    /\ call.result > 0

----------------------------------------------------------------------------
(* The claims about the Mongo side, checked under SpecMongo *)

\* The handlers that look one document up by the identifier in the path.
IdHandlers == {"get_job", "delete_job", "get_application", "update_application",
               "delete_application"}

NotFoundDetail(op) ==
    IF op \in {"get_job", "delete_job"} THEN "Job not found" ELSE "Application not found"

\* C29: a request of an identifier handler for a well-formed id that matches no
\* document, whose Mongo operation did not fail, is answered 404 with the
\* "not found" detail; 400 is answered only for an invalid id or a failed
\* operation.
C29_MissingDocumentIs404 ==
    reply.op \in IdHandlers =>
        /\ (~ObjectId_raises(reply.id) /\ ~reply.failed /\ ~reply.matched
              => reply.http.status = 404 /\ reply.http.detail = NotFoundDetail(reply.op))
        /\ (reply.http.status = 400 => ObjectId_raises(reply.id) \/ reply.failed)

\* C30: get_database returns a handle exactly when the most recent
\* connect_to_database succeeded and no close_database_connection came after
\* it; otherwise it raises RuntimeError.
C30_HandleOnlyWhileConnected ==
    reply.op = "get_database" =>
        /\ (reply.status = "returned" <=> link = "connected")
        /\ (link # "connected" => reply.status = "raised" /\ reply.exc = "RuntimeError")

----------------------------------------------------------------------------
(* The claims about concurrent requests, checked under SpecConc and SpecRace *)

\* worker w has just made one scoring call
scored(w) ==
    /\ inflight[w].op = "list"
    /\ inflight'[w].op = "list"
    /\ Len(inflight'[w].scores) = Len(inflight[w].scores) + 1

\* C21: a scoring call of one request, however the steps of the requests
\* interleave, writes nothing shared (the table, the preferences row, the
\* response, the other request's objects), leaves the job and the preferences it
\* was given as they were, and yields the score that compute_relevance gives for
\* that job and those preferences alone at the same instant.
C21_ScoringIsolated ==
    [][\A w \in Workers :
          scored(w) =>
              LET k == Len(inflight[w].scores) + 1 IN
              /\ jobs' = jobs /\ prefs' = prefs /\ resp' = resp /\ now' = now
              /\ \A v \in Workers \ {w} : inflight'[v] = inflight[v]
              /\ inflight'[w].items = inflight[w].items
              /\ inflight'[w].prefs = inflight[w].prefs
              /\ inflight'[w].scores[k] =
                     compute_relevance(inflight[w].items[k].job, inflight[w].prefs, now)
              /\ inflight'[w].reads[k] = now]_vars

\* two requests are in the middle of their scoring loops, each with one of its
\* two rows scored, and they hold different preferences
C21_Witness ==
    /\ \A w \in Workers :
          /\ inflight[w].op = "list"
          /\ Len(inflight[w].items) = 2
          /\ Len(inflight[w].scores) = 1
    /\ inflight["w1"].prefs # inflight["w2"].prefs
    /\ inflight["w1"].items[1].id = inflight["w2"].items[1].id
    /\ inflight["w1"].scores[1] # inflight["w2"].scores[1]

\* two rows are the same posting: the same URL, or the same company, title and
\* location, letter case apart
same_posting(a, b) ==
    \/ /\ ~IsNone(a.url) /\ ~IsNone(b.url)
       /\ str_lower(Val(a.url)) = str_lower(Val(b.url))
    \/ /\ str_lower(a.company) = str_lower(b.company)
       /\ str_lower(a.title) = str_lower(b.title)
       /\ IsNone(a.location) = IsNone(b.location)
       /\ ~IsNone(a.location) => str_lower(Val(a.location)) = str_lower(Val(b.location))

\* C28: the table never holds two rows for the same posting, whether the
\* payloads came one after the other or from two requests at once.
C28_OneRowPerPosting ==
    \A i, j \in DOMAIN jobs : i # j => ~same_posting(jobs[i], jobs[j])

====
